---- MODULE Spec2Model ----
(***************************************************************************)
(* FamilySearch SDK: the pedigree-to-GEDCOM converter (convertToGedcom).   *)
(* The converter is a pure, synchronous function of (pedigreeData,         *)
(* options) that also reads the wall clock once (HEAD.DATE).  The model    *)
(* runs it as a sequence of stages over its local variables; the inputs    *)
(* are fixed by Init, the options that vary between invocations are drawn  *)
(* by the Call action.                                                     *)
(***************************************************************************)
EXTENDS Integers, Sequences, FiniteSets, TLC

\* ------------------------------------------------------------------ bounds
\* Size of the person-identifier universe (P1 .. P<NumIds>).
NumIds == 3
\* Longest root relationship list of an input.
MaxRels == 2
\* Largest seed (options.ancestryPersonIds) of an input.
MaxSeed == 1
\* Number of invocations of convertToGedcom in a behaviour that compares
\* invocations.
MaxCalls == 3

\* ------------------------------------------------------------- vocabulary
\* JavaScript's undefined for an optional string field.
Undefined == "undefined"

IdOf(i) == "P" \o ToString(i)
Ids == {IdOf(i) : i \in 1..NumIds}

\* String comparison as used by Array.prototype.sort() on two identifiers:
\* "P<i>" sorts before "P<j>" exactly when i < j (single-digit suffixes).
IdRank(id) == CHOOSE i \in 1..NumIds : IdOf(i) = id

ParentChildType == "http://gedcomx.org/ParentChild"
CoupleType == "http://gedcomx.org/Couple"

Genders == {"Male", "Female", Undefined}

\* Ticks of the wall clock per calendar day: new Date() has a finer
\* resolution than the date printed in the header.
TicksPerDay == 2

\* ------------------------------------------------------ sequence helpers
Range(s) == {s[i] : i \in DOMAIN s}

Includes(s, x) == \E i \in DOMAIN s : s[i] = x

\* Array.from(new Set(s)): first occurrences, in insertion order.
RECURSIVE Dedupe(_)
Dedupe(s) ==
    IF s = <<>> THEN <<>>
    ELSE LET front == Dedupe(SubSeq(s, 1, Len(s) - 1))
             last == s[Len(s)]
         IN  IF Includes(front, last) THEN front ELSE Append(front, last)

\* Variant: the line is pushed to the end of the array.
SpliceAppend(lines, at, line) == Append(lines, line)

\* lines.splice(at, 0, line): insert line so that it becomes lines[at+1]
\* in 1-based indexing (at is the 0-based JavaScript index).
Splice(lines, at, line) ==
    SubSeq(lines, 1, at) \o <<line>> \o SubSeq(lines, at + 1, Len(lines))

\* ------------------------------------------------------------ input data
\* A Relationship record of the input (types/index.ts: Relationship): the
\* fields convertToGedcom reads; it has no facts and no details.
Rel(id, type, p1, p2, par2) ==
    [id |-> id, type |-> type, person1 |-> p1, person2 |-> p2, parent2 |-> par2,
     facts |-> <<>>]

\* A PersonFact: its type and links.conclusion.href; it has no date, place
\* or value.
Fact(type, href) == [type |-> type, href |-> href]

\* The record r (a person or a relationship) with the given facts.
WithFacts(r, facts) == [r EXCEPT !.facts = facts]

\* A ChildAndParentsRelationship record of a person's detail blob.
Cap(id, par1, par2, child) ==
    [id |-> id, parent1 |-> par1, parent2 |-> par2, child |-> child]

\* An EnhancedPerson: id, gender (gender.type / display.gender), and of
\* fullDetails the relationship lists and the source descriptions (each
\* source description is its id: it has no title, citation, link or type).
\* The person has no facts, no link (links.person.href), no name, no
\* display data and no notes.
Person(id, gender, rels, caps, sources) ==
    [id |-> id, gender |-> gender,
     relationships |-> rels, childAndParentsRelationships |-> caps,
     sourceDescriptions |-> sources, facts |-> <<>>, href |-> Undefined]

\* The person with links.person.href set.
WithLink(person, href) == [person EXCEPT !.href = href]

\* ----------------------------------------------------------- pure helpers
\* extractGender: "M" / "F" / null
extractGender(person) ==
    IF person.gender = "Male" THEN "M"
    ELSE IF person.gender = "Female" THEN "F"
    ELSE Undefined

\* new Date() at clock tick t, as the fields formatDateForGedcom reads.
DateAt(t) ==
    [date |-> 1 + (t \div TicksPerDay), month |-> 0, year |-> 2026,
     hours |-> (t % TicksPerDay) * (24 \div TicksPerDay)]

months ==
    <<"JAN", "FEB", "MAR", "APR", "MAY", "JUN",
      "JUL", "AUG", "SEP", "OCT", "NOV", "DEC">>

\* Variant: the header date also carries the time of day.
formatDateWithTime(d) ==
    ToString(d.date) \o " " \o months[d.month + 1] \o " " \o ToString(d.year)
    \o " " \o ToString(d.hours) \o ":00"

formatDateForGedcom(d) ==
    ToString(d.date) \o " " \o months[d.month + 1] \o " " \o ToString(d.year)

\* [a, b].sort().join("-")
SortedKey(a, b) ==
    IF IdRank(a) <= IdRank(b) THEN a \o "-" \o b ELSE b \o "-" \o a

\* Variant: the single-parent key joined with a colon.
SingleKeyColon(p) == "single:" \o p

SingleKey(p) == "single-" \o p

\* Variant: the identifier built from the 0-based index.
IndiIdZeroBased(n) == "@I" \o ToString(n - 1) \o "@"

\* `@I${n}@`, `@F${n}@`
IndiId(n) == "@I" \o ToString(n) \o "@"
FamId(n) == "@F" \o ToString(n) \o "@"

\* url.includes(sub)
StrIncludes(str, sub) ==
    \E i \in 1..(Len(str) - Len(sub) + 1) : SubSeq(str, i, i + Len(sub) - 1) = sub

\* The 1-based position of the first occurrence of sub in str.
StrIndexOf(str, sub) ==
    CHOOSE i \in 1..(Len(str) - Len(sub) + 1) :
        /\ SubSeq(str, i, i + Len(sub) - 1) = sub
        /\ \A j \in 1..(i - 1) : SubSeq(str, j, j + Len(sub) - 1) # sub

\* url.match(/persons\/([^/?]+)/)?.[1]: the longest run of characters other
\* than "/" and "?" after the first "persons/"; "" when there is no match.
MatchPersonId(url) ==
    LET from == StrIndexOf(url, "persons/") + Len("persons/")
        stops == {j \in from..Len(url) : SubSeq(url, j, j) \in {"/", "?"}}
        to == IF stops = {} THEN Len(url)
              ELSE (CHOOSE j \in stops : \A k \in stops : j <= k) - 1
    IN  IF StrIncludes(url, "persons/") THEN SubSeq(url, from, to) ELSE ""

\* Transform FamilySearch API URLs to web URLs.
transformFamilySearchUrl(url) ==
    LET personId == MatchPersonId(url)
        baseUrl ==
            IF \/ StrIncludes(url, "integration.familysearch.org")
               \/ StrIncludes(url, "api-integ.familysearch.org")
            THEN "https://integration.familysearch.org"
            ELSE IF \/ StrIncludes(url, "beta.familysearch.org")
                    \/ StrIncludes(url, "apibeta.familysearch.org")
            THEN "https://beta.familysearch.org"
            ELSE "https://www.familysearch.org"
    IN  IF ~StrIncludes(url, "/platform/tree/persons/") THEN url
        ELSE IF personId = "" THEN url
        ELSE baseUrl \o "/tree/person/" \o personId

BirthType == "http://gedcomx.org/Birth"
MarriageType == "http://gedcomx.org/Marriage"
ResidenceType == "http://gedcomx.org/Residence"

\* typeMap[fact.type] || "EVEN", for the fact types of the inputs.
GedcomTag(type) ==
    IF type = MarriageType THEN "MARR"
    ELSE IF type = ResidenceType THEN "RESI"
    ELSE "EVEN"

\* Convert a FamilySearch fact to GEDCOM lines.
convertFactToGedcom(fact) ==
    IF fact.type = Undefined THEN <<>>
    ELSE << <<"1", GedcomTag(fact.type)>> >>
         \o (IF fact.href # Undefined
             THEN << <<"2", "_FS_LINK", transformFamilySearchUrl(fact.href)>> >>
             ELSE <<>>)

\* ------------------------------ an insertion-ordered Map as a sequence of
\* entries; families: [key, spouses, children], childToParents: [child,
\* parents], personIdMap / familyIdMap: [key, id].
HasKey(m, k) == \E i \in DOMAIN m : m[i].key = k
IndexOfKey(m, k) == CHOOSE i \in DOMAIN m : m[i].key = k
Get(m, k) == m[IndexOfKey(m, k)]
Keys(m) == {m[i].key : i \in DOMAIN m}

\* personIdMap.set(id, gedcomId): a later set for the same key overwrites
\* the value and keeps the key's position.
MapSet(m, k, v) ==
    IF HasKey(m, k)
    THEN [m EXCEPT ![IndexOfKey(m, k)] = [key |-> k, id |-> v]]
    ELSE Append(m, [key |-> k, id |-> v])

\* personIdMap built from pedigreeData.persons (Step 1).
RECURSIVE BuildPersonIdMap(_, _)
BuildPersonIdMap(persons, n) ==
    IF n = 0 THEN <<>>
    ELSE MapSet(BuildPersonIdMap(persons, n - 1), persons[n].id, IndiId(n))

\* --------------------------------------------- the relationship aggregator
AddIfNew(all, rel) ==
    IF \E i \in DOMAIN all : all[i].id = rel.id THEN all ELSE Append(all, rel)

RECURSIVE AddPersonRels(_, _)
AddPersonRels(all, rels) ==
    IF rels = <<>> THEN all
    ELSE AddPersonRels(AddIfNew(all, Head(rels)), Tail(rels))

AddCap(all, cap) ==
    LET withP1 ==
            IF cap.parent1 # Undefined /\ cap.child # Undefined
            THEN AddIfNew(all, Rel(cap.id \o "-p1", ParentChildType,
                                   cap.parent1, cap.child, cap.parent2))
            ELSE all
    IN  IF cap.parent2 # Undefined /\ cap.child # Undefined
        THEN AddIfNew(withP1, Rel(cap.id \o "-p2", ParentChildType,
                                  cap.parent2, cap.child, cap.parent1))
        ELSE withP1

RECURSIVE AddCaps(_, _)
AddCaps(all, caps) ==
    IF caps = <<>> THEN all
    ELSE AddCaps(AddCap(all, Head(caps)), Tail(caps))

RECURSIVE CollectFromPersons(_, _)
CollectFromPersons(all, persons) ==
    IF persons = <<>> THEN all
    ELSE LET p == Head(persons)
         IN  CollectFromPersons(
                 AddCaps(AddPersonRels(all, p.relationships),
                         p.childAndParentsRelationships),
                 Tail(persons))

\* allRelationships: root list first (not deduplicated), then each person's
\* detail relationships and split composite records, deduplicated by id.
CollectAllRelationships(pd) == CollectFromPersons(pd.relationships, pd.persons)

\* --------------------------------------------------- family graph builder
\* parents.push(parentId) for every valid parent not yet included.
RECURSIVE PushParents(_, _)
PushParents(parents, validParents) ==
    IF validParents = <<>> THEN parents
    ELSE PushParents(
             IF Includes(parents, Head(validParents)) THEN parents
             ELSE Append(parents, Head(validParents)),
             Tail(validParents))

\* One ParentChild relationship against childToParents.
ProcessParentChild(c2p, rel, validPersonIds) ==
    LET parentId == rel.person1
        childId == rel.person2
        parent2Id == rel.parent2
        validParents ==
            (IF parentId \in validPersonIds THEN <<parentId>> ELSE <<>>)
            \o (IF parent2Id # Undefined /\ parent2Id \in validPersonIds
                THEN <<parent2Id>> ELSE <<>>)
        withEntry ==
            IF HasKey(c2p, childId) THEN c2p
            ELSE Append(c2p, [key |-> childId, parents |-> <<>>])
        at == IndexOfKey(withEntry, childId)
    IN  IF parentId = Undefined \/ childId = Undefined THEN c2p
        ELSE IF childId \notin validPersonIds THEN c2p
        ELSE IF Len(validParents) > 0
        THEN [withEntry EXCEPT ![at].parents = PushParents(@, validParents)]
        ELSE c2p

\* Variant: a couple is added when either person exists in the dataset.
ProcessCoupleEitherPerson(fams, rel, validPersonIds) ==
    LET person1 == rel.person1
        person2 == rel.person2
        famKey == SortedKey(person1, person2)
    IN  IF person1 = Undefined \/ person2 = Undefined THEN fams
        ELSE IF person1 \in validPersonIds \/ person2 \in validPersonIds
        THEN IF HasKey(fams, famKey) THEN fams
             ELSE Append(fams, [key |-> famKey,
                                spouses |-> Dedupe(<<person1, person2>>),
                                children |-> <<>>])
        ELSE fams

\* One Couple relationship against families.
ProcessCouple(fams, rel, validPersonIds) ==
    LET person1 == rel.person1
        person2 == rel.person2
        famKey == SortedKey(person1, person2)
    IN  IF person1 = Undefined \/ person2 = Undefined THEN fams
        ELSE IF person1 \in validPersonIds /\ person2 \in validPersonIds
        THEN IF HasKey(fams, famKey) THEN fams
             ELSE Append(fams, [key |-> famKey,
                                spouses |-> Dedupe(<<person1, person2>>),
                                children |-> <<>>])
        ELSE fams

\* allRelationships.forEach: g = [c2p, fams]
RECURSIVE ProcessRelationships(_, _, _)
ProcessRelationships(g, rels, validPersonIds) ==
    IF rels = <<>> THEN g
    ELSE LET rel == Head(rels)
             g1 == IF rel.type = ParentChildType
                   THEN [g EXCEPT !.c2p =
                            ProcessParentChild(@, rel, validPersonIds)]
                   ELSE IF rel.type = CoupleType
                   THEN [g EXCEPT !.fams =
                            ProcessCouple(@, rel, validPersonIds)]
                   ELSE g
         IN  ProcessRelationships(g1, Tail(rels), validPersonIds)

\* families.get(famKey).children.push(childId), creating the family first
\* when the key is new.
AttachChild(fams, famKey, spouses, childId) ==
    LET withFam ==
            IF HasKey(fams, famKey) THEN fams
            ELSE Append(fams, [key |-> famKey, spouses |-> spouses,
                               children |-> <<>>])
        at == IndexOfKey(withFam, famKey)
    IN  [withFam EXCEPT ![at].children = Append(@, childId)]

\* The family key of a child with the given parent list.
ChildFamKey(parents) ==
    IF Len(parents) >= 2 THEN SortedKey(parents[1], parents[2])
    ELSE SingleKey(parents[1])

\* childToParents.forEach: add children to their families.
RECURSIVE AddChildrenToFamilies(_, _)
AddChildrenToFamilies(fams, c2p) ==
    IF c2p = <<>> THEN fams
    ELSE LET e == Head(c2p)
             parents == e.parents
             fams1 ==
                 IF Len(parents) >= 2
                 THEN AttachChild(fams, ChildFamKey(parents),
                                  Dedupe(SubSeq(parents, 1, 2)), e.key)
                 ELSE IF Len(parents) = 1
                 THEN AttachChild(fams, ChildFamKey(parents),
                                  <<parents[1]>>, e.key)
                 ELSE fams
         IN  AddChildrenToFamilies(fams1, Tail(c2p))

\* ---------------------------------------------------- connectivity resolver
\* Step 2: families.forEach - if any spouse is connectable, add all spouses.
RECURSIVE AddSpousesOfAncestry(_, _)
AddSpousesOfAncestry(conn, fams) ==
    IF fams = <<>> THEN conn
    ELSE LET spouses == Range(Head(fams).spouses)
         IN  AddSpousesOfAncestry(
                 IF spouses \cap conn # {} THEN conn \cup spouses ELSE conn,
                 Tail(fams))

\* Step 3a: childToParents.forEach - if any parent is connectable, the
\* child is connectable.
RECURSIVE AddChildrenOfConnectable(_, _)
AddChildrenOfConnectable(conn, c2p) ==
    IF c2p = <<>> THEN conn
    ELSE LET e == Head(c2p)
         IN  AddChildrenOfConnectable(
                 IF Range(e.parents) \cap conn # {}
                 THEN conn \cup {e.key} ELSE conn,
                 Tail(c2p))

\* Variant: a connectable child does not bring in the spouses.
SpousesJoinBySpouse(family, conn) ==
    Range(family.spouses) \cap conn # {}

\* Step 3b, the condition under which a family's spouses are all added.
SpousesJoin(family, conn) ==
    LET hasConnectableSpouse == Range(family.spouses) \cap conn # {}
        hasConnectableChild == Range(family.children) \cap conn # {}
    IN  hasConnectableSpouse \/ hasConnectableChild

\* Step 3b: families.forEach - add spouses of connectable persons.
RECURSIVE AddSpousesOfConnectable(_, _)
AddSpousesOfConnectable(conn, fams) ==
    IF fams = <<>> THEN conn
    ELSE LET family == Head(fams)
         IN  AddSpousesOfConnectable(
                 IF SpousesJoin(family, conn)
                 THEN conn \cup Range(family.spouses) ELSE conn,
                 Tail(fams))

\* Variant: a pass that finds persons keeps only those.
ResolverPassFrontier(conn, c2p, fams) ==
    LET next == AddSpousesOfConnectable(AddChildrenOfConnectable(conn, c2p), fams)
    IN  IF next = conn THEN conn ELSE next \ conn

\* One iteration of the while (addedNewPersons) loop body.
ResolverPass(conn, c2p, fams) ==
    AddSpousesOfConnectable(AddChildrenOfConnectable(conn, c2p), fams)

\* Variant: only the children are added.
LegacyConnectableChildren(c2p) == {c2p[i].key : i \in DOMAIN c2p}

\* Fallback when no seed is given: everyone in a parent-child relationship.
LegacyConnectable(c2p) ==
    UNION {{c2p[i].key} \cup Range(c2p[i].parents) : i \in DOMAIN c2p}

\* --------------------------------------------------------- orphan detection
Members(family) == Range(family.spouses) \cup Range(family.children)

\* Variant: a family without children is never orphan.
IsOrphanFamilyWithChildren(family, conn) ==
    family.children # <<>> /\ Members(family) \cap conn = {}

\* isOrphanFamily = !anyMemberConnectable
IsOrphanFamily(family, conn) == Members(family) \cap conn = {}

\* orphanFamKeys
OrphanFamKeys(fams, conn) ==
    {fams[i].key : i \in {j \in DOMAIN fams : IsOrphanFamily(fams[j], conn)}}

\* personToFamKeys.get(id), the empty set standing for an absent entry.
PersonToFamKeys(fams, id) ==
    {fams[i].key : i \in {j \in DOMAIN fams : id \in Members(fams[j])}}

\* Variant: the filter does not look at the option.
SkipOrphanPersonWhateverOption(famKeys, orphanKeys, allowOrphanFamilies) ==
    /\ famKeys # {}
    /\ \A k \in famKeys : k \in orphanKeys

\* Variant: the filter without the famKeys.size > 0 test.
SkipOrphanPersonVacuous(famKeys, orphanKeys, allowOrphanFamilies) ==
    /\ ~allowOrphanFamilies
    /\ \A k \in famKeys : k \in orphanKeys

\* The orphan-person filter of Step 5: TRUE when the person is skipped.
SkipOrphanPerson(famKeys, orphanKeys, allowOrphanFamilies) ==
    /\ ~allowOrphanFamilies
    /\ famKeys # {}
    /\ \A k \in famKeys : k \in orphanKeys

\* ------------------------------------------------------------ GEDCOM emitter
\* An output line is the tuple of its space-separated fields: level, then
\* tag and value (or cross-reference id and tag for a level-0 record).
HeaderLines(today) ==
    << <<"0", "HEAD">>,
       <<"1", "SOUR", "FamilySearch">>,
       <<"2", "VERS", "1.0">>,
       <<"2", "NAME", "FamilySearch API">>,
       <<"1", "DEST", "ANY">>,
       <<"1", "DATE", formatDateForGedcom(today)>>,
       <<"1", "SUBM", "@SUBM1@">>,
       <<"1", "FILE", "FamilySearch Import">>,
       <<"1", "GEDC">>,
       <<"2", "VERS", "5.5">>,
       <<"2", "FORM", "LINEAGE-LINKED">>,
       <<"1", "CHAR", "UTF-8">>,
       <<"0", "@SUBM1@", "SUBM">> >>

\* sourceMap: the source descriptions of all persons, first occurrence of
\* each id, in insertion order.
RECURSIVE CollectSources(_)
CollectSources(persons) ==
    IF persons = <<>> THEN <<>>
    ELSE Dedupe(CollectSources(SubSeq(persons, 1, Len(persons) - 1))
                \o persons[Len(persons)].sourceDescriptions)

SourId(n) == "@S" \o ToString(n) \o "@"
SourHeader(sourceId) == <<"0", sourceId, "SOUR">>

\* sourceMap.forEach: one SOUR record per source, with the default title.
SourceRecords(sourceMap) ==
    IF sourceMap = <<>> THEN <<>>
    ELSE LET rec(n) == << SourHeader(SourId(n)),
                          <<"1", "TITL", "FamilySearch Source">> >>
             RECURSIVE upTo(_)
             upTo(n) == IF n = 0 THEN <<>> ELSE upTo(n - 1) \o rec(n)
         IN  upTo(Len(sourceMap))

IndiHeader(gedcomId) == <<"0", gedcomId, "INDI">>
FamHeader(famId) == <<"0", famId, "FAM">>
OrphanMarker == <<"1", "_IS_ORPHAN_FAMILY", "Y">>

\* The lines of the facts of a person other than birth and death.
RECURSIVE OtherFactLines(_)
OtherFactLines(facts) ==
    IF facts = <<>> THEN <<>>
    ELSE (IF Head(facts).type # Undefined /\ Head(facts).type # BirthType
          THEN convertFactToGedcom(Head(facts)) ELSE <<>>)
         \o OtherFactLines(Tail(facts))

\* The INDI block of one person (production environment). A birth fact
\* has neither date nor place, so it gives no BIRT line.
IndiBlock(person, gedcomId, includeLinks) ==
    << IndiHeader(gedcomId),
       <<"1", "_FS_ID", person.id>> >>
    \o (IF includeLinks
        THEN IF person.href # Undefined
             THEN << <<"1", "_FS_LINK", transformFamilySearchUrl(person.href)>> >>
             ELSE << <<"1", "_FS_LINK",
                      "https://www.familysearch.org/tree/person/" \o person.id>> >>
        ELSE <<>>)
    \o (IF extractGender(person) # Undefined
        THEN << <<"1", "SEX", extractGender(person)>> >> ELSE <<>>)
    \o OtherFactLines(person.facts)

\* Step 5: pedigreeData.persons.forEach - INDI records with orphan filtering.
RECURSIVE EmitIndiRecords(_, _, _, _, _, _, _)
EmitIndiRecords(lines, persons, idMap, fams, orphanKeys, allowOrphanFamilies, includeLinks) ==
    IF persons = <<>> THEN lines
    ELSE LET person == Head(persons)
             gedcomId == Get(idMap, person.id).id
             skip == SkipOrphanPerson(PersonToFamKeys(fams, person.id),
                                      orphanKeys, allowOrphanFamilies)
         IN  EmitIndiRecords(
                 IF skip THEN lines
                 ELSE lines \o IndiBlock(person, gedcomId, includeLinks),
                 Tail(persons), idMap, fams, orphanKeys, allowOrphanFamilies,
                 includeLinks)

\* pedigreeData.persons.find((p) => p.id === id), then extractGender.
GenderOfId(persons, id) ==
    IF \E i \in DOMAIN persons : persons[i].id = id
    THEN extractGender(
             persons[CHOOSE i \in DOMAIN persons :
                        /\ persons[i].id = id
                        /\ \A j \in 1..(i - 1) : persons[j].id # id])
    ELSE Undefined

\* Variant: the first spouse of a couple is always the HUSB.
SpouseLinesFirstAsHusb(spouseArray, persons, idMap) ==
    IF Len(spouseArray) = 2
    THEN << <<"1", "HUSB", Get(idMap, spouseArray[1]).id>>,
            <<"1", "WIFE", Get(idMap, spouseArray[2]).id>> >>
    ELSE IF Len(spouseArray) = 1
    THEN IF GenderOfId(persons, spouseArray[1]) = "M"
         THEN << <<"1", "HUSB", Get(idMap, spouseArray[1]).id>> >>
         ELSE << <<"1", "WIFE", Get(idMap, spouseArray[1]).id>> >>
    ELSE <<>>

\* HUSB / WIFE lines of a family.
SpouseLines(spouseArray, persons, idMap) ==
    IF Len(spouseArray) = 2
    THEN LET gender1 == GenderOfId(persons, spouseArray[1])
             gender2 == GenderOfId(persons, spouseArray[2])
             p1 == Get(idMap, spouseArray[1]).id
             p2 == Get(idMap, spouseArray[2]).id
         IN  IF gender1 = "M" \/ gender2 = "F"
             THEN << <<"1", "HUSB", p1>>, <<"1", "WIFE", p2>> >>
             ELSE << <<"1", "HUSB", p2>>, <<"1", "WIFE", p1>> >>
    ELSE IF Len(spouseArray) = 1
    THEN IF GenderOfId(persons, spouseArray[1]) = "M"
         THEN << <<"1", "HUSB", Get(idMap, spouseArray[1]).id>> >>
         ELSE << <<"1", "WIFE", Get(idMap, spouseArray[1]).id>> >>
    ELSE <<>>

\* CHIL lines of a family.
RECURSIVE ChildLines(_, _)
ChildLines(children, idMap) ==
    IF children = <<>> THEN <<>>
    ELSE (IF HasKey(idMap, Head(children))
          THEN << <<"1", "CHIL", Get(idMap, Head(children)).id>> >>
          ELSE <<>>)
         \o ChildLines(Tail(children), idMap)

\* Variant: only families without any parent are skipped.
IsInvalidFamilyParentsOnly(family, idMap) ==
    Cardinality({i \in DOMAIN family.spouses :
                    HasKey(idMap, family.spouses[i])}) = 0

\* Invalid FAM record prevention: TRUE when the family is skipped.
IsInvalidFamily(family, idMap) ==
    LET parentsInMap ==
            {i \in DOMAIN family.spouses : HasKey(idMap, family.spouses[i])}
        hasNoParents == Cardinality(parentsInMap) = 0
        hasSingleParentNoChildren ==
            Cardinality(parentsInMap) = 1 /\ Len(family.children) = 0
    IN  hasNoParents \/ hasSingleParentNoChildren

\* The lines of the marriage facts of a list of facts.
RECURSIVE MarriageFactLines(_)
MarriageFactLines(facts) ==
    IF facts = <<>> THEN <<>>
    ELSE (IF Head(facts).type = MarriageType
          THEN convertFactToGedcom(Head(facts)) ELSE <<>>)
         \o MarriageFactLines(Tail(facts))

\* addMarriageFacts: the marriage facts of the first relationship, of
\* whatever type, whose two endpoints are the two spouses.
addMarriageFacts(relationships, person1, person2) ==
    LET relKey == SortedKey(person1, person2)
        matches ==
            {i \in DOMAIN relationships :
                /\ relationships[i].person1 # Undefined
                /\ relationships[i].person2 # Undefined
                /\ SortedKey(relationships[i].person1,
                             relationships[i].person2) = relKey}
    IN  IF matches = {} THEN <<>>
        ELSE MarriageFactLines(
                 relationships[CHOOSE i \in matches :
                                  \A j \in matches : i <= j].facts)

\* The lines of one emitted FAM record.
FamRecord(family, famId, persons, idMap, conn, allowOrphanFamilies, relationships) ==
    <<FamHeader(famId)>>
    \o (IF IsOrphanFamily(family, conn) /\ allowOrphanFamilies
        THEN <<OrphanMarker>> ELSE <<>>)
    \o SpouseLines(family.spouses, persons, idMap)
    \o (IF Len(family.spouses) = 2
        THEN addMarriageFacts(relationships, family.spouses[1],
                              family.spouses[2])
        ELSE <<>>)
    \o ChildLines(family.children, idMap)

\* Variant: a skipped family uses up a number.
EmitFamilyCountingSkipped(st, family, persons, idMap, conn, allowOrphanFamilies, relationships) ==
    LET famId == FamId(st.famIndex)
        skipped == [st EXCEPT !.famIndex = @ + 1]
    IN  IF IsInvalidFamily(family, idMap) THEN skipped
        ELSE IF IsOrphanFamily(family, conn) /\ ~allowOrphanFamilies THEN skipped
        ELSE [lines |-> st.lines \o FamRecord(family, famId, persons, idMap,
                                             conn, allowOrphanFamilies, relationships),
              famIndex |-> st.famIndex + 1,
              familyIdMap |-> MapSet(st.familyIdMap, family.key, famId)]

\* Variant: orphan families are skipped when they are allowed.
EmitFamilyInvertedFlag(st, family, persons, idMap, conn, allowOrphanFamilies, relationships) ==
    LET famId == FamId(st.famIndex)
    IN  IF IsInvalidFamily(family, idMap) THEN st
        ELSE IF IsOrphanFamily(family, conn) /\ allowOrphanFamilies THEN st
        ELSE [lines |-> st.lines \o FamRecord(family, famId, persons, idMap,
                                             conn, allowOrphanFamilies, relationships),
              famIndex |-> st.famIndex + 1,
              familyIdMap |-> MapSet(st.familyIdMap, family.key, famId)]

\* The body of families.forEach in Step 6 for one family;
\* st = [lines, famIndex, familyIdMap].
EmitFamily(st, family, persons, idMap, conn, allowOrphanFamilies, relationships) ==
    LET famId == FamId(st.famIndex)
    IN  IF IsInvalidFamily(family, idMap) THEN st
        ELSE IF IsOrphanFamily(family, conn) /\ ~allowOrphanFamilies THEN st
        ELSE [lines |-> st.lines \o FamRecord(family, famId, persons, idMap,
                                             conn, allowOrphanFamilies, relationships),
              famIndex |-> st.famIndex + 1,
              familyIdMap |-> MapSet(st.familyIdMap, family.key, famId)]

\* Step 6: families.forEach - FAM records with orphan filtering.
RECURSIVE EmitFamRecords(_, _, _, _, _, _, _)
EmitFamRecords(st, fams, persons, idMap, conn, allowOrphanFamilies, relationships) ==
    IF fams = <<>> THEN st
    ELSE EmitFamRecords(
             EmitFamily(st, Head(fams), persons, idMap, conn,
                        allowOrphanFamilies, relationships),
             Tail(fams), persons, idMap, conn, allowOrphanFamilies, relationships)

\* lines.findIndex((line) => line === target), 1-based; 0 when absent.
FindIndex(lines, target) ==
    IF Includes(lines, target)
    THEN CHOOSE i \in DOMAIN lines :
            lines[i] = target /\ \A j \in 1..(i - 1) : lines[j] # target
    ELSE 0

\* Add FAMC links: childToParents.forEach.
RECURSIVE SpliceFamc(_, _, _, _)
SpliceFamc(lines, c2p, idMap, famIdMap) ==
    IF c2p = <<>> THEN lines
    ELSE LET e == Head(c2p)
             famKey == ChildFamKey(e.parents)
             at == FindIndex(lines, IndiHeader(Get(idMap, e.key).id))
             lines1 ==
                 IF ~HasKey(idMap, e.key) THEN lines
                 ELSE IF Len(e.parents) >= 1 /\ HasKey(famIdMap, famKey) /\ at # 0
                 THEN Splice(lines, at, <<"1", "FAMC", Get(famIdMap, famKey).id>>)
                 ELSE lines
         IN  SpliceFamc(lines1, Tail(c2p), idMap, famIdMap)

\* Variant: the scan passes over FAMS lines instead of FAMC lines.
StartsWithFams(line) == Len(line) >= 2 /\ line[1] = "1" /\ line[2] = "FAMS"

\* lines[insertIndex].startsWith("1 FAMC")
StartsWithFamc(line) == Len(line) >= 2 /\ line[1] = "1" /\ line[2] = "FAMC"

\* The insert position of a FAMS line: after the INDI header at 1-based
\* index at and after the FAMC lines that follow it.
RECURSIVE SkipFamc(_, _)
SkipFamc(lines, insertIndex) ==
    IF insertIndex < Len(lines) /\ StartsWithFamc(lines[insertIndex + 1])
    THEN SkipFamc(lines, insertIndex + 1)
    ELSE insertIndex

RECURSIVE SpliceFamsOfFamily(_, _, _, _)
SpliceFamsOfFamily(lines, spouses, famId, idMap) ==
    IF spouses = <<>> THEN lines
    ELSE LET at == FindIndex(lines, IndiHeader(Get(idMap, Head(spouses)).id))
             lines1 ==
                 IF ~HasKey(idMap, Head(spouses)) \/ at = 0 THEN lines
                 ELSE Splice(lines, SkipFamc(lines, at), <<"1", "FAMS", famId>>)
         IN  SpliceFamsOfFamily(lines1, Tail(spouses), famId, idMap)

\* Add FAMS links: families.forEach.
RECURSIVE SpliceFams(_, _, _, _)
SpliceFams(lines, fams, idMap, famIdMap) ==
    IF fams = <<>> THEN lines
    ELSE LET family == Head(fams)
         IN  SpliceFams(
                 IF HasKey(famIdMap, family.key)
                 THEN SpliceFamsOfFamily(lines, family.spouses,
                                         Get(famIdMap, family.key).id, idMap)
                 ELSE lines,
                 Tail(fams), idMap, famIdMap)

\* ------------------------------------------------------------------- state
VARIABLES
    pedigreeData,        \* argument 1: [hasPersons, persons, relationships]
    ancestryPersonIds,   \* options.ancestryPersonIds ({} when absent or empty)
    includeLinksOption,  \* options.includeLinks: "true", "false" or not given
    clock,               \* the wall clock, in ticks
    callsLeft,           \* invocations the caller has still to make
    pc,                  \* position of the running invocation, or "idle"
    allowOption,         \* options.allowOrphanFamilies of the running invocation
    lines,               \* const lines: string[]
    personIdMap,
    allRelationships,
    childToParents,
    families,
    connectablePersons,
    famIndex,
    familyIdMap,
    result,              \* outcome of the latest completed invocation
    previous,            \* outcome of the invocation before it
    sdkInstance,         \* let sdkInstance: <<>> for null, else <<instance>>
    nextId,              \* identity of the next object that new creates
    lastCall,            \* the latest call of the client API, its arguments
    returned,            \* what the latest call returned
    lastInitResult,      \* instance initFamilySearchSDK returned last (0: none)
    lastGetResult,       \* instance getFamilySearchSDK returned last (0: none)
    pending,             \* the request in flight: <<>> or <<request>>
    sessionStorage,      \* window.sessionStorage: key -> value
    localStorage,        \* window.localStorage: key -> value
    storageDefined,      \* which of the two storage APIs exist
    issuedState          \* history: <<s>> when s went to the latest
                         \* storeOAuthState and no validateOAuthState
                         \* was called since, else <<>>

converterVars ==
    <<pedigreeData, ancestryPersonIds, includeLinksOption, clock, callsLeft, pc, allowOption, lines,
      personIdMap, allRelationships, childToParents, families,
      connectablePersons, famIndex, familyIdMap, result, previous>>

sdkVars ==
    <<sdkInstance, nextId, lastCall, returned, lastInitResult, lastGetResult,
      pending>>

storageVars == <<sessionStorage, localStorage, storageDefined, issuedState>>

vars == <<converterVars, sdkVars, storageVars>>

locals ==
    <<lines, personIdMap, allRelationships, childToParents, families,
      connectablePersons, famIndex, familyIdMap>>

inputs == <<pedigreeData, ancestryPersonIds, includeLinksOption>>

\* options.allowOrphanFamilies: true, false or not given.
AllowValues == {"true", "false", Undefined}

\* Variant: the option defaults to true.
allowOrphanFamiliesUnlessFalse == allowOption # "false"

\* const allowOrphanFamilies = options.allowOrphanFamilies === true
allowOrphanFamilies == allowOption = "true"

\* const { includeLinks = true } = options
includeLinks == includeLinksOption # "false"

NoOutcome ==
    [status |-> "none", allow |-> Undefined, time |-> 0, output |-> <<>>,
     famKeys |-> {}]

\* ---------------------------------------------------------- bounded inputs
\* Relationship shapes of the root list: Couple edges between any two
\* identifiers (a self-couple included) and ParentChild edges with an
\* optional second parent distinct from the edge's endpoints.
RelShapes ==
    {[type |-> CoupleType, person1 |-> a, person2 |-> b, parent2 |-> Undefined] :
        a \in Ids, b \in Ids}
    \cup
    {[type |-> ParentChildType, person1 |-> sh[1], person2 |-> sh[2],
      parent2 |-> sh[3]] :
        sh \in {t \in Ids \X Ids \X (Ids \cup {Undefined}) :
                   /\ t[3] \notin {t[1], t[2]}
                   /\ (t[1] = t[2] => t[3] = Undefined)}}

\* Root relationship lists: up to MaxRels shapes, the i-th with id "R<i>".
RelLists ==
    UNION {{[i \in 1..k |->
                Rel("R" \o ToString(i), f[i].type, f[i].person1, f[i].person2,
                    f[i].parent2)] : f \in [1..k -> RelShapes]} : k \in 0..MaxRels}

\* Genders of P1, P2, ... under variant k: the first variants rotate the
\* cycle Male, Female, unknown over the persons, the later ones give every
\* person the same entry of the cycle.
GenderCycle == <<"Male", "Female", Undefined>>
GenderUnder(k, i) ==
    IF k < Len(GenderCycle)
    THEN GenderCycle[((i - 1 + k) % Len(GenderCycle)) + 1]
    ELSE GenderCycle[k - Len(GenderCycle) + 1]

\* Source descriptions of P1, P2, ... under variant k: none, one of the
\* person's own, or two that all persons share.
SourcesUnder(k, i) ==
    IF k % Len(GenderCycle) = 0 THEN <<>>
    ELSE IF k % Len(GenderCycle) = 1 THEN <<"SD" \o ToString(i)>>
    ELSE <<"SD1", "SD2">>

\* Person lists of length n under variant k.
PersonList(n, k) ==
    [i \in 1..n |->
        Person(IdOf(i), GenderUnder(k, i), <<>>, <<>>, SourcesUnder(k, i))]

PersonLists ==
    {PersonList(n, k) : n \in 0..NumIds, k \in 0..(2 * Len(GenderCycle) - 1)}

Pedigree(ps, rs) == [hasPersons |-> TRUE, persons |-> ps, relationships |-> rs]

\* pedigreeData without a persons field.
NoPersons == [hasPersons |-> FALSE, persons |-> <<>>, relationships |-> <<>>]

PedigreeInputs ==
    {Pedigree(ps, rs) : ps \in PersonLists, rs \in RelLists} \cup {NoPersons}

\* The inputs on which consecutive invocations are compared: all or all
\* but one of the identifiers are persons of the list.
PairInputs ==
    {Pedigree(PersonList(n, 0), rs) : n \in (NumIds - 1)..NumIds, rs \in RelLists}

SeedInputs == {S \in SUBSET Ids : Cardinality(S) <= MaxSeed}

\* ------------------------------------------------- the rest of the client
\* Nothing was called yet.
NoCall == [op |-> "none"]

\* The SDK module as loaded: let sdkInstance = null.
ModuleLoaded ==
    /\ sdkInstance = <<>>
    /\ nextId = 1
    /\ lastCall = NoCall
    /\ returned = 0
    /\ lastInitResult = 0
    /\ lastGetResult = 0
    /\ pending = <<>>

\* A browser whose storages hold nothing.
StorageEmpty ==
    /\ sessionStorage = <<>>
    /\ localStorage = <<>>
    /\ storageDefined = [session |-> TRUE, local |-> TRUE]
    /\ issuedState = <<>>

\* ------------------------------------------------------------------ actions
\* The caller holds its arguments and is about to invoke the converter
\* n times, with includeLinks one of linkOptions.
InitWithOptions(pedigrees, n, linkOptions) ==
    /\ pedigreeData \in pedigrees
    /\ ancestryPersonIds \in SeedInputs
    /\ includeLinksOption \in linkOptions
    /\ clock = 0
    /\ callsLeft = n
    /\ pc = "idle"
    /\ allowOption = Undefined
    /\ lines = <<>>
    /\ personIdMap = <<>>
    /\ allRelationships = <<>>
    /\ childToParents = <<>>
    /\ families = <<>>
    /\ connectablePersons = {}
    /\ famIndex = 1
    /\ familyIdMap = <<>>
    /\ result = NoOutcome
    /\ previous = NoOutcome
    /\ ModuleLoaded
    /\ StorageEmpty

\* The same without an includeLinks option.
InitWith(pedigrees, n) == InitWithOptions(pedigrees, n, {Undefined})

\* One invocation on any input.
Init == InitWith(PedigreeInputs, 1)

\* Consecutive invocations on the same input.
InitPair == InitWith(PairInputs, MaxCalls)

\* The input check of convertToGedcom: TRUE when it throws.
InvalidInput(pd) == ~pd.hasPersons

\* convertToGedcom(pedigreeData, options) is entered: input validation,
\* header, submitter, source records and personIdMap; time passes.
Call(allow) ==
    /\ pc = "idle"
    /\ callsLeft > 0
    /\ callsLeft' = callsLeft - 1
    /\ clock' = clock + 1
    /\ allowOption' = allow
    /\ previous' = result
    /\ allRelationships' = <<>>
    /\ childToParents' = <<>>
    /\ families' = <<>>
    /\ connectablePersons' = {}
    /\ famIndex' = 1
    /\ familyIdMap' = <<>>
    /\ IF InvalidInput(pedigreeData)
       THEN /\ pc' = "idle"
            /\ lines' = <<>>
            /\ personIdMap' = <<>>
            /\ result' = [status |-> "thrown", allow |-> allow, time |-> clock,
                          output |-> <<>>, famKeys |-> {}]
       ELSE /\ pc' = "relationships"
            /\ lines' = HeaderLines(DateAt(clock))
                        \o SourceRecords(CollectSources(pedigreeData.persons))
            /\ personIdMap' = BuildPersonIdMap(pedigreeData.persons,
                                               Len(pedigreeData.persons))
            /\ result' = NoOutcome
    /\ UNCHANGED <<sdkVars, storageVars>>
    /\ UNCHANGED inputs

\* Relationship aggregation and the family graph (childToParents, families).
BuildFamilyGraph ==
    /\ pc = "relationships"
    /\ LET all == CollectAllRelationships(pedigreeData)
           validPersonIds == {pedigreeData.persons[i].id :
                                 i \in DOMAIN pedigreeData.persons}
           g == ProcessRelationships([c2p |-> <<>>, fams |-> <<>>], all,
                                     validPersonIds)
       IN  /\ allRelationships' = all
           /\ childToParents' = g.c2p
           /\ families' = AddChildrenToFamilies(g.fams, g.c2p)
    /\ pc' = "resolve"
    /\ UNCHANGED <<sdkVars, storageVars>>
    /\ UNCHANGED <<inputs, clock, callsLeft, allowOption, lines, personIdMap,
                   connectablePersons, famIndex, familyIdMap, result, previous>>

\* Steps 1 and 2 of the resolver when a seed is given.
ResolveFromSeed ==
    /\ pc = "resolve"
    /\ ancestryPersonIds # {}
    /\ connectablePersons' = AddSpousesOfAncestry(ancestryPersonIds, families)
    /\ pc' = "loop"
    /\ UNCHANGED <<sdkVars, storageVars>>
    /\ UNCHANGED <<inputs, clock, callsLeft, allowOption, lines, personIdMap,
                   allRelationships, childToParents, families, famIndex,
                   familyIdMap, result, previous>>

\* One iteration of while (addedNewPersons); the loop is left after an
\* iteration that added nobody.
ResolverIteration ==
    /\ pc = "loop"
    /\ connectablePersons' =
           ResolverPass(connectablePersons, childToParents, families)
    /\ pc' = IF connectablePersons' # connectablePersons THEN "loop" ELSE "indi"
    /\ UNCHANGED <<sdkVars, storageVars>>
    /\ UNCHANGED <<inputs, clock, callsLeft, allowOption, lines, personIdMap,
                   allRelationships, childToParents, families, famIndex,
                   familyIdMap, result, previous>>

\* The fallback of the resolver when no seed is given.
ResolveLegacy ==
    /\ pc = "resolve"
    /\ ancestryPersonIds = {}
    /\ connectablePersons' = LegacyConnectable(childToParents)
    /\ pc' = "indi"
    /\ UNCHANGED <<sdkVars, storageVars>>
    /\ UNCHANGED <<inputs, clock, callsLeft, allowOption, lines, personIdMap,
                   allRelationships, childToParents, families, famIndex,
                   familyIdMap, result, previous>>

\* Steps 4 and 5: orphan detection and the INDI records.
EmitIndi ==
    /\ pc = "indi"
    /\ lines' = EmitIndiRecords(lines, pedigreeData.persons, personIdMap,
                                families,
                                OrphanFamKeys(families, connectablePersons),
                                allowOrphanFamilies, includeLinks)
    /\ pc' = "fam"
    /\ UNCHANGED <<sdkVars, storageVars>>
    /\ UNCHANGED <<inputs, clock, callsLeft, allowOption, personIdMap,
                   allRelationships, childToParents, families,
                   connectablePersons, famIndex, familyIdMap, result, previous>>

\* Step 6: the FAM records.
EmitFam ==
    /\ pc = "fam"
    /\ LET st == EmitFamRecords(
                     [lines |-> lines, famIndex |-> famIndex,
                      familyIdMap |-> familyIdMap],
                     families, pedigreeData.persons, personIdMap,
                     connectablePersons, allowOrphanFamilies,
                     allRelationships)
       IN  /\ lines' = st.lines
           /\ famIndex' = st.famIndex
           /\ familyIdMap' = st.familyIdMap
    /\ pc' = "links"
    /\ UNCHANGED <<sdkVars, storageVars>>
    /\ UNCHANGED <<inputs, clock, callsLeft, allowOption, personIdMap,
                   allRelationships, childToParents, families,
                   connectablePersons, result, previous>>

\* FAMC and FAMS back-references, the trailer, and the return of the text.
LinkAndReturn ==
    /\ pc = "links"
    /\ lines' = Append(
           SpliceFams(SpliceFamc(lines, childToParents, personIdMap, familyIdMap),
                      families, personIdMap, familyIdMap),
           <<"0", "TRLR">>)
    /\ result' = [status |-> "returned", allow |-> allowOption,
                  time |-> clock - 1, output |-> lines',
                  famKeys |-> Keys(familyIdMap)]
    /\ pc' = "idle"
    /\ UNCHANGED <<sdkVars, storageVars>>
    /\ UNCHANGED <<inputs, clock, callsLeft, allowOption, personIdMap,
                   allRelationships, childToParents, families,
                   connectablePersons, famIndex, familyIdMap, previous>>

Next ==
    \/ \E allow \in AllowValues : Call(allow)
    \/ BuildFamilyGraph
    \/ ResolveFromSeed
    \/ ResolverIteration
    \/ ResolveLegacy
    \/ EmitIndi
    \/ EmitFam
    \/ LinkAndReturn

Spec == Init /\ [][Next]_vars

SpecPair == InitPair /\ [][Next]_vars

\* ======================================================================
\* Properties
\* ======================================================================
\* An invocation has returned its text and no other is running.
Returned == pc = "idle" /\ result.status = "returned"

\* The resolver has finished for the running (or just returned) invocation.
Resolved == pc \in {"indi", "fam", "links"} \/ Returned

SeedMode == ancestryPersonIds # {}

PersonIds == {pedigreeData.persons[i].id : i \in DOMAIN pedigreeData.persons}

Level(line) == line[1]
IsIndiHeader(line) == Len(line) = 3 /\ line[1] = "0" /\ line[3] = "INDI"
IsFamHeader(line) == Len(line) = 3 /\ line[1] = "0" /\ line[3] = "FAM"

\* Indices of the lines below the level-0 line at index i of out.
Block(out, i) ==
    {j \in DOMAIN out : j > i /\ \A k \in (i + 1)..j : Level(out[k]) # "0"}

TagCount(out, i, tags) ==
    Cardinality({j \in Block(out, i) : out[j][2] \in tags})

\* The person identifiers that have an INDI record in out.
EmittedPersons(out) ==
    {p \in Ids : \E j \in DOMAIN out :
        /\ IsIndiHeader(out[j])
        /\ \E k \in Block(out, j) : out[k] = <<"1", "_FS_ID", p>>}

\* In the words of the claims: no spouse and no child of the family is
\* in the connectable set.
NoMemberConnectable(family) ==
    /\ \A i \in DOMAIN family.spouses : family.spouses[i] \notin connectablePersons
    /\ \A i \in DOMAIN family.children : family.children[i] \notin connectablePersons

\* A family that may be written: at least one spouse, and not one spouse
\* without children.
StructurallyValid(family) ==
    /\ Len(family.spouses) >= 1
    /\ ~(Len(family.spouses) = 1 /\ Len(family.children) = 0)

\* ---------------------------------------------------------------------
\* C1 (as claimed): with a non-empty seed every connectable person is in
\* the seed, or is a child with a connectable parent, or is a spouse of a
\* family that has another, connectable spouse; nobody is connectable only
\* because a child of theirs is.
C1_DownwardAndSidewaysOnly ==
    (Resolved /\ SeedMode) =>
        \A p \in connectablePersons :
            \/ p \in ancestryPersonIds
            \/ \E i \in DOMAIN childToParents :
                  /\ childToParents[i].key = p
                  /\ \E q \in Range(childToParents[i].parents) :
                        q # p /\ q \in connectablePersons
            \/ \E i \in DOMAIN families :
                  /\ p \in Range(families[i].spouses)
                  /\ \E q \in Range(families[i].spouses) :
                        q # p /\ q \in connectablePersons

\* ---------------------------------------------------------------------
\* C2: no FAM record of a returned text is without HUSB and WIFE line, and
\* none has exactly one of them and no CHIL line.
C2_NoInvalidFamRecord ==
    Returned =>
        \A i \in DOMAIN result.output :
            IsFamHeader(result.output[i]) =>
                LET spouseLines == TagCount(result.output, i, {"HUSB", "WIFE"})
                    childLines == TagCount(result.output, i, {"CHIL"})
                IN  /\ spouseLines >= 1
                    /\ ~(spouseLines = 1 /\ childLines = 0)

\* C2 witness: a text with a FAM record was returned although the family
\* map holds a family of one spouse and no child.
C2_Witness ==
    /\ Returned
    /\ \E i \in DOMAIN result.output : IsFamHeader(result.output[i])
    /\ \E i \in DOMAIN families : ~StructurallyValid(families[i])

\* ---------------------------------------------------------------------
\* The FAM record of family key k in a returned text: the index of its
\* header line, 0 when the family has no record.
FamHeaderIndex(k) ==
    IF HasKey(familyIdMap, k)
    THEN FindIndex(result.output, FamHeader(Get(familyIdMap, k).id))
    ELSE 0

FamHeaderCount(out) == Cardinality({i \in DOMAIN out : IsFamHeader(out[i])})

\* C3: with allowOrphanFamilies false or not given no orphan family has a
\* FAM record; with true every structurally valid orphan family has one,
\* marked 1 _IS_ORPHAN_FAMILY Y, and no other FAM record has the marker.
C3_OrphanFamilies ==
    Returned =>
        /\ FamHeaderCount(result.output) = Len(familyIdMap)
        /\ \A i \in DOMAIN families :
              LET family == families[i]
                  at == FamHeaderIndex(family.key)
              IN  /\ (result.allow # "true" /\ NoMemberConnectable(family))
                        => at = 0
                  /\ (result.allow = "true" /\ NoMemberConnectable(family)
                      /\ StructurallyValid(family))
                        => /\ at # 0
                           /\ result.output[at + 1] = OrphanMarker
                  /\ (at # 0 /\ ~NoMemberConnectable(family))
                        => TagCount(result.output, at, {"_IS_ORPHAN_FAMILY"}) = 0

\* C3 witness: allowOrphanFamilies=true, and the returned text has a marked
\* orphan family and an unmarked connected one.
C3_Witness ==
    /\ Returned
    /\ result.allow = "true"
    /\ \E i, j \in DOMAIN families :
          /\ NoMemberConnectable(families[i])
          /\ FamHeaderIndex(families[i].key) # 0
          /\ ~NoMemberConnectable(families[j])
          /\ FamHeaderIndex(families[j].key) # 0

\* ---------------------------------------------------------------------
\* The families of the map to which person p belongs as spouse or child.
FamiliesOf(p) ==
    {i \in DOMAIN families :
        p \in Range(families[i].spouses) \/ p \in Range(families[i].children)}

\* C4: a person of the input list has no INDI record exactly when
\* allowOrphanFamilies is not true, the person belongs to a family, and all
\* families of the person are orphan.
C4_OrphanPersons ==
    Returned =>
        \A p \in PersonIds :
            (p \notin EmittedPersons(result.output))
            <=> /\ result.allow # "true"
                /\ FamiliesOf(p) # {}
                /\ \A i \in FamiliesOf(p) : NoMemberConnectable(families[i])

\* C4 witness: under allowOrphanFamilies=false one person is suppressed,
\* and another, who belongs to no family, is emitted.
C4_Witness ==
    /\ Returned
    /\ result.allow = "false"
    /\ \E p, q \in PersonIds :
          /\ p \notin EmittedPersons(result.output)
          /\ FamiliesOf(q) = {}
          /\ q \in EmittedPersons(result.output)

\* ---------------------------------------------------------------------
\* Two consecutive invocations have returned, the later one with
\* allowOrphanFamilies=true and the earlier one without it, or vice versa.
TogglePair(on, off) ==
    /\ on.status = "returned" /\ off.status = "returned"
    /\ on.allow = "true" /\ off.allow # "true"

\* C5: for the same input, the persons and the families emitted with
\* allowOrphanFamilies=true include those emitted without it.
C5_ToggleSuperset ==
    pc = "idle" =>
        \A pair \in {<<result, previous>>, <<previous, result>>} :
            TogglePair(pair[1], pair[2]) =>
                /\ EmittedPersons(pair[2].output)
                       \subseteq EmittedPersons(pair[1].output)
                /\ pair[2].famKeys \subseteq pair[1].famKeys

\* C5 witness: the run with the option emitted strictly more persons and
\* strictly more families than the run without it.
C5_Witness ==
    /\ pc = "idle"
    /\ TogglePair(result, previous)
    /\ EmittedPersons(previous.output) # EmittedPersons(result.output)
    /\ previous.famKeys # result.famKeys
    /\ previous.famKeys # {}

\* ---------------------------------------------------------------------
IndiHeaderIndices(out) == {j \in DOMAIN out : IsIndiHeader(out[j])}
FamHeaderIndices(out) == {j \in DOMAIN out : IsFamHeader(out[j])}

PositionOfRecord(out, j) ==
    LET fits(n) ==
            /\ out[j][2] = "@I" \o ToString(n) \o "@"
            /\ \E l \in Block(out, j) :
                  out[l] = <<"1", "_FS_ID", pedigreeData.persons[n].id>>
    IN  IF \E n \in DOMAIN pedigreeData.persons : fits(n)
        THEN CHOOSE n \in DOMAIN pedigreeData.persons : fits(n)
        ELSE 0

C7_FamilyIdentifiers ==
    Returned =>
        LET out == result.output
        IN  /\ \A j \in FamHeaderIndices(out) :
                  out[j][2] = "@F" \o ToString(
                      Cardinality({l \in FamHeaderIndices(out) : l <= j})) \o "@"
            /\ Cardinality(FamHeaderIndices(out)) = Len(familyIdMap)
            /\ \A i \in DOMAIN familyIdMap :
                  /\ familyIdMap[i].id = "@F" \o ToString(i) \o "@"
                  /\ HasKey(families, familyIdMap[i].key)
                  /\ \A l \in 1..(i - 1) :
                        IndexOfKey(families, familyIdMap[l].key)
                            < IndexOfKey(families, familyIdMap[i].key)

\* C7 witness: a suppressed family precedes an emitted one in the map.
C7_Witness ==
    /\ Returned
    /\ \E i, j \in DOMAIN families :
          /\ i < j
          /\ ~HasKey(familyIdMap, families[i].key)
          /\ HasKey(familyIdMap, families[j].key)

\* ---------------------------------------------------------------------
\* Two consecutive invocations with the same options have returned.
SameOptionsPair ==
    /\ pc = "idle"
    /\ result.status = "returned" /\ previous.status = "returned"
    /\ result.allow = previous.allow

\* C8 (as claimed): two invocations on the same data and options return
\* identical text.
C8_Deterministic == SameOptionsPair => result.output = previous.output

SameCalendarDay(t1, t2) == (t1 \div TicksPerDay) = (t2 \div TicksPerDay)

IsHeadDate(out, i) ==
    /\ i \in Block(out, 1)
    /\ Len(out[i]) = 3 /\ out[i][1] = "1" /\ out[i][2] = "DATE"

\* C8 (amended): the two texts differ at most in the 1 DATE line of the
\* HEAD record, and not at all when both calls fall on one calendar day.
C8_DeterministicUpToDate ==
    SameOptionsPair =>
        /\ Len(result.output) = Len(previous.output)
        /\ \A i \in DOMAIN result.output :
              result.output[i] # previous.output[i]
                  => IsHeadDate(result.output, i) /\ IsHeadDate(previous.output, i)
        /\ SameCalendarDay(result.time, previous.time)
              => result.output = previous.output

\* C8 witness: two invocations at different times of one day, with the
\* same options, have returned a text with an INDI record.
C8_Witness ==
    /\ SameOptionsPair
    /\ result.time # previous.time
    /\ SameCalendarDay(result.time, previous.time)
    /\ IndiHeaderIndices(result.output) # {}

\* ---------------------------------------------------------------------
\* C9 (as claimed): an invocation whose person list is missing or empty
\* ends with an error and without output.
C9_MissingOrEmptyThrows ==
    (/\ pc = "idle"
     /\ result.status # "none"
     /\ (~pedigreeData.hasPersons \/ Len(pedigreeData.persons) = 0))
        => result.status = "thrown" /\ result.output = <<>>

\* ---------------------------------------------------------------------
\* Scenario C: the relationships are the single edge ParentChild(P1 -> P2)
\* and the seed is {P1}.
ScenarioC(ids) ==
    /\ Returned
    /\ [i \in DOMAIN pedigreeData.persons |-> pedigreeData.persons[i].id] = ids
    /\ pedigreeData.relationships =
           <<Rel("R1", ParentChildType, "P1", "P2", Undefined)>>
    /\ ancestryPersonIds = {"P1"}

\* The family single-P1 with spouse P1 and child P2 is the only family and
\* its FAM record names P1 as HUSB when male and as WIFE otherwise.
SingleP1Emitted ==
    /\ families = <<[key |-> "single-P1", spouses |-> <<"P1">>,
                     children |-> <<"P2">>]>>
    /\ \E j \in DOMAIN result.output :
          /\ result.output[j] = <<"0", "@F1@", "FAM">>
          /\ j + 2 <= Len(result.output)
          /\ result.output[j + 1] =
                <<"1", IF pedigreeData.persons[1].gender = "Male"
                       THEN "HUSB" ELSE "WIFE", "@I1@">>
          /\ result.output[j + 2] = <<"1", "CHIL", "@I2@">>

\* C10 (as claimed): in scenario C with the person list [P1] the family
\* single-P1 is created and emitted.
C10_ScenarioC == ScenarioC(<<"P1">>) => SingleP1Emitted

\* C10 (amended): in scenario C with P2 in the person list as well the
\* family single-P1 is created and emitted; with the person list [P1] the
\* edge is dropped, and there is no family and no FAM record.
C10_ScenarioCWithChild ==
    /\ ScenarioC(<<"P1", "P2">>) => SingleP1Emitted
    /\ ScenarioC(<<"P1">>) =>
          families = <<>> /\ FamHeaderIndices(result.output) = {}

\* C10 witness: scenario C with the persons P1 (male) and P2 has returned.
C10_Witness ==
    /\ ScenarioC(<<"P1", "P2">>)
    /\ pedigreeData.persons[1].gender = "Male"

\* ---------------------------------------------------------------------
\* The lines of the record starting at line i that carry one of the tags
\* and the value v.
HasLine(out, i, tags, v) ==
    \E k \in Block(out, i) :
        Len(out[k]) = 3 /\ out[k][1] = "1" /\ out[k][2] \in tags /\ out[k][3] = v

\* C11: in a returned text, for every FAM record F each CHIL of F has an
\* INDI block whose line after the header is 1 FAMC F, and each HUSB or
\* WIFE of F has an INDI block with 1 FAMS F after every FAMC line of the
\* block; an INDI block has a FAMC (FAMS) line only for a FAM record of the
\* text that names the person as CHIL (HUSB or WIFE), and at most one FAMC
\* line.
C11_BackReferences ==
    Returned =>
        LET out == result.output
            indis == IndiHeaderIndices(out)
            fams == FamHeaderIndices(out)
        IN  /\ \A f \in fams : \A k \in Block(out, f) :
                  /\ out[k][2] = "CHIL" =>
                        \E j \in indis :
                            /\ out[j][2] = out[k][3]
                            /\ out[j + 1] = <<"1", "FAMC", out[f][2]>>
                  /\ out[k][2] \in {"HUSB", "WIFE"} =>
                        \E j \in indis :
                            /\ out[j][2] = out[k][3]
                            /\ \E s \in Block(out, j) :
                                  /\ out[s] = <<"1", "FAMS", out[f][2]>>
                                  /\ \A c \in Block(out, j) :
                                        out[c][2] = "FAMC" => c < s
            /\ \A j \in indis :
                  /\ TagCount(out, j, {"FAMC"}) <= 1
                  /\ \A k \in Block(out, j) :
                        /\ out[k][2] = "FAMC" =>
                              \E f \in fams :
                                  /\ out[f][2] = out[k][3]
                                  /\ HasLine(out, f, {"CHIL"}, out[j][2])
                        /\ out[k][2] = "FAMS" =>
                              \E f \in fams :
                                  /\ out[f][2] = out[k][3]
                                  /\ HasLine(out, f, {"HUSB", "WIFE"}, out[j][2])

\* C11 witness: a returned text in which one person's INDI block has both
\* a FAMC and a FAMS line, for two different FAM records.
C11_Witness ==
    /\ Returned
    /\ \E j \in IndiHeaderIndices(result.output) :
          \E c, s \in Block(result.output, j) :
              /\ result.output[c][2] = "FAMC"
              /\ result.output[s][2] = "FAMS"
              /\ result.output[c][3] # result.output[s][3]

\* ---------------------------------------------------------------------
\* The level-0 lines of a text, in order.
Level0(out) == SelectSeq(out, LAMBDA line : Level(line) = "0")

\* The place of a level-0 line in the order HEAD, SUBM, SOUR, INDI, FAM,
\* TRLR; 0 for any other level-0 line.
RecordRank(line) ==
    IF line = <<"0", "HEAD">> THEN 1
    ELSE IF line = <<"0", "TRLR">> THEN 6
    ELSE IF Len(line) # 3 THEN 0
    ELSE IF line[3] = "SUBM" THEN 2
    ELSE IF line[3] = "SOUR" THEN 3
    ELSE IF line[3] = "INDI" THEN 4
    ELSE IF line[3] = "FAM" THEN 5
    ELSE 0

\* The level-0 lines of out are one HEAD, one SUBM, SOUR records, INDI
\* records, FAM records, in this order.
OrderedRecords(out) ==
    LET zeros == Level0(out)
    IN  /\ Len(zeros) >= 2
        /\ RecordRank(zeros[1]) = 1
        /\ RecordRank(zeros[2]) = 2
        /\ \A i \in DOMAIN zeros : i > 2 => RecordRank(zeros[i]) \in {3, 4, 5}
        /\ \A i, j \in DOMAIN zeros :
              i < j => RecordRank(zeros[i]) <= RecordRank(zeros[j])

\* C12: a returned text begins with 0 HEAD and ends with 0 TRLR, and its
\* level-0 lines are HEAD, one SUBM, the SOUR records, the INDI records,
\* the FAM records and TRLR in this order; every FAMC and FAMS line lies
\* in an INDI block, and the splicing step leaves the level-0 lines as
\* they were, adding only the trailer.
C12_RecordOrder ==
    /\ [](Returned =>
            LET out == result.output
                n == Len(out)
            IN  /\ out[1] = <<"0", "HEAD">>
                /\ out[n] = <<"0", "TRLR">>
                /\ OrderedRecords(SubSeq(out, 1, n - 1))
                /\ \A k \in DOMAIN out :
                      (Len(out[k]) = 3 /\ out[k][2] \in {"FAMC", "FAMS"}) =>
                          \E j \in IndiHeaderIndices(out) : k \in Block(out, j))
    /\ [][pc = "links" =>
            Level0(lines') = Append(Level0(lines), <<"0", "TRLR">>)]_vars

\* C12 witness: a returned text with two SOUR records, three INDI records
\* and a FAM record, into which a FAMC and a FAMS line were spliced.
C12_Witness ==
    /\ Returned
    /\ Cardinality({i \in DOMAIN result.output :
                       RecordRank(result.output[i]) = 3}) >= 2
    /\ Cardinality(IndiHeaderIndices(result.output)) >= 3
    /\ FamHeaderIndices(result.output) # {}
    /\ \E c, s \in DOMAIN result.output :
          /\ Len(result.output[c]) = 3 /\ result.output[c][2] = "FAMC"
          /\ Len(result.output[s]) = 3 /\ result.output[s][2] = "FAMS"

\* ---------------------------------------------------------------------
\* The position of the person with identifier id in the input list.
InputIndex(id) ==
    (CHOOSE i \in DOMAIN pedigreeData.persons :
        pedigreeData.persons[i].id = id)

\* The FAM record of a two-spouse family names husb as HUSB and wife as
\* WIFE.
Oriented(family, husb, wife) ==
    LET at == FamHeaderIndex(family.key)
    IN  /\ HasLine(result.output, at, {"HUSB"}, Get(personIdMap, husb).id)
        /\ HasLine(result.output, at, {"WIFE"}, Get(personIdMap, wife).id)
        /\ TagCount(result.output, at, {"HUSB", "WIFE"}) = 2

\* The two-spouse families with a FAM record in the returned text.
EmittedCouples ==
    {i \in DOMAIN families :
        Len(families[i].spouses) = 2 /\ FamHeaderIndex(families[i].key) # 0}

\* C13 (as claimed): unless the spouses are explicitly a male and a female
\* one, the first spouse is HUSB and the second WIFE, and the two are
\* swapped when the second spouse is explicitly female.
C13_FirstSpouseIsHusb ==
    Returned =>
        \A i \in EmittedCouples :
            LET first == families[i].spouses[1]
                second == families[i].spouses[2]
                g1 == pedigreeData.persons[InputIndex(first)].gender
                g2 == pedigreeData.persons[InputIndex(second)].gender
            IN  ({g1, g2} # {"Male", "Female"}) =>
                    IF g2 = "Female"
                    THEN Oriented(families[i], second, first)
                    ELSE Oriented(families[i], first, second)

\* C13 (amended): the first spouse is HUSB and the second WIFE when the
\* first is explicitly male or the second explicitly female; in every
\* other case, both genders unknown included, the second spouse is HUSB
\* and the first WIFE.
C13_Orientation ==
    Returned =>
        \A i \in EmittedCouples :
            LET first == families[i].spouses[1]
                second == families[i].spouses[2]
                g1 == pedigreeData.persons[InputIndex(first)].gender
                g2 == pedigreeData.persons[InputIndex(second)].gender
            IN  IF g1 = "Male" \/ g2 = "Female"
                THEN Oriented(families[i], first, second)
                ELSE Oriented(families[i], second, first)

\* C13 witness: the FAM record of a couple of two persons of unknown
\* gender was written.
C13_Witness ==
    /\ Returned
    /\ \E i \in EmittedCouples :
          \A j \in DOMAIN families[i].spouses :
              pedigreeData.persons[InputIndex(families[i].spouses[j])].gender
                  = Undefined

\* ======================================================================
\* The SDK client: the FamilySearchSDK class and its global instance
\* ======================================================================
\* The most instances a behaviour creates.
MaxInstances == 3

Null == "null"

Environments == {"production", "beta", "integration"}

\* Access tokens a caller passes: the empty string is a string too.
AccessTokenValues == {"", "tokenA", "tokenB"}

\* FamilySearchSDKConfig: every field is optional (the logger has no part
\* in the state of interest).
Configs ==
    [environment : Environments \cup {Undefined},
     accessToken : AccessTokenValues \cup {Undefined},
     appKey : {"app-key", Undefined}]

\* config = {}
EmptyConfig ==
    [environment |-> Undefined, accessToken |-> Undefined, appKey |-> Undefined]

\* x || fallback for an optional string x.
OrElse(x, fallback) == IF x = Undefined \/ x = "" THEN fallback ELSE x

\* new FamilySearchSDK(config): the object with identity id.
NewFamilySearchSDK(id, config) ==
    [id |-> id,
     environment |-> OrElse(config.environment, "integration"),
     accessToken |-> OrElse(config.accessToken, Null),
     appKey |-> OrElse(config.appKey, Null)]

\* Variant: a configuration without environment re-creates the instance
\* as well.
InitExistingRecreate(instance, config, id) == NewFamilySearchSDK(id, config)

\* Variant: the re-created instance inherits the token of the old one.
InitExistingKeepToken(instance, config, id) ==
    LET withToken ==
            IF config.accessToken # Undefined
            THEN [instance EXCEPT !.accessToken = config.accessToken]
            ELSE instance
    IN  IF config.environment # Undefined
        THEN [NewFamilySearchSDK(id, config) EXCEPT
                 !.accessToken = withToken.accessToken]
        ELSE withToken

\* The else branch of initFamilySearchSDK: the singleton after the call,
\* id being the identity a newly created object gets.
InitExisting(instance, config, id) ==
    LET withToken ==
            IF config.accessToken # Undefined
            THEN [instance EXCEPT !.accessToken = config.accessToken]
            ELSE instance
    IN  IF config.environment # Undefined
        THEN NewFamilySearchSDK(id, config)
        ELSE withToken

\* Variant: every call creates an instance.
GetAlwaysCreates(instance, id) == <<NewFamilySearchSDK(id, EmptyConfig)>>

\* The body of getFamilySearchSDK: sdkInstance after the call.
GetOrCreate(instance, id) ==
    IF instance = <<>> THEN <<NewFamilySearchSDK(id, EmptyConfig)>> ELSE instance

\* The identity counter after a call that left the singleton at instance.
Allocated(instance) ==
    IF instance # <<>> /\ instance[1].id = nextId THEN nextId + 1 ELSE nextId

initFamilySearchSDK(config) ==
    /\ nextId <= MaxInstances
    /\ sdkInstance' =
           IF sdkInstance = <<>> THEN <<NewFamilySearchSDK(nextId, config)>>
           ELSE <<InitExisting(sdkInstance[1], config, nextId)>>
    /\ nextId' = Allocated(sdkInstance')
    /\ returned' = sdkInstance'[1].id
    /\ lastInitResult' = returned'
    /\ lastCall' = [op |-> "init", config |-> config]
    /\ UNCHANGED <<lastGetResult, pending, converterVars, storageVars>>

getFamilySearchSDK ==
    /\ nextId <= MaxInstances
    /\ sdkInstance' = GetOrCreate(sdkInstance, nextId)
    /\ nextId' = Allocated(sdkInstance')
    /\ returned' = sdkInstance'[1].id
    /\ lastGetResult' = returned'
    /\ lastCall' = [op |-> "get"]
    /\ UNCHANGED <<lastInitResult, pending, converterVars, storageVars>>

\* createFamilySearchSDK(config): an instance that is not the global one.
createFamilySearchSDK(config) ==
    /\ nextId <= MaxInstances
    /\ nextId' = nextId + 1
    /\ returned' = NewFamilySearchSDK(nextId, config).id
    /\ lastCall' = [op |-> "create", config |-> config]
    /\ UNCHANGED <<sdkInstance, lastInitResult, lastGetResult, pending,
                   converterVars, storageVars>>

\* resetFamilySearchSDK(): the caller's references are of no use any more.
resetFamilySearchSDK ==
    /\ sdkInstance' = <<>>
    /\ returned' = 0
    /\ lastInitResult' = 0
    /\ lastGetResult' = 0
    /\ lastCall' = [op |-> "reset"]
    /\ UNCHANGED <<nextId, pending, converterVars, storageVars>>

\* sdk.setAccessToken(token) on the global instance.
setAccessToken(token) ==
    /\ sdkInstance # <<>>
    /\ sdkInstance' = <<[sdkInstance[1] EXCEPT !.accessToken = token]>>
    /\ returned' = 0
    /\ lastCall' = [op |-> "setAccessToken", token |-> token]
    /\ UNCHANGED <<nextId, lastInitResult, lastGetResult, pending,
                   converterVars, storageVars>>

\* sdk.clearAccessToken() on the global instance.
clearAccessToken ==
    /\ sdkInstance # <<>>
    /\ sdkInstance' = <<[sdkInstance[1] EXCEPT !.accessToken = Null]>>
    /\ returned' = 0
    /\ lastCall' = [op |-> "clearAccessToken"]
    /\ UNCHANGED <<nextId, lastInitResult, lastGetResult, pending,
                   converterVars, storageVars>>

\* The converter is not in use.
ConverterUnused ==
    /\ pedigreeData = NoPersons
    /\ ancestryPersonIds = {}
    /\ includeLinksOption = Undefined
    /\ clock = 0
    /\ callsLeft = 0
    /\ pc = "idle"
    /\ allowOption = Undefined
    /\ lines = <<>>
    /\ personIdMap = <<>>
    /\ allRelationships = <<>>
    /\ childToParents = <<>>
    /\ families = <<>>
    /\ connectablePersons = {}
    /\ famIndex = 1
    /\ familyIdMap = <<>>
    /\ result = NoOutcome
    /\ previous = NoOutcome

InitSdk == ConverterUnused /\ ModuleLoaded /\ StorageEmpty

NextSdk ==
    \/ \E config \in Configs : initFamilySearchSDK(config)
    \/ getFamilySearchSDK
    \/ \E config \in Configs : createFamilySearchSDK(config)
    \/ resetFamilySearchSDK
    \/ \E token \in AccessTokenValues : setAccessToken(token)
    \/ clearAccessToken

\* Calls of the singleton functions and of the instance's token methods,
\* in any order.
SpecSdk == InitSdk /\ [][NextSdk]_vars

\* ---------------------------------------------------------------------
\* C14: a call of getFamilySearchSDK never returns null; it returns the
\* global instance, which is the instance the latest initFamilySearchSDK
\* since the latest reset returned or, without one, the instance the
\* previous getFamilySearchSDK since the reset returned.
C14_SingletonIdentity ==
    [][lastCall'.op = "get" =>
          /\ returned' # 0
          /\ sdkInstance' # <<>> /\ sdkInstance'[1].id = returned'
          /\ lastInitResult # 0 => returned' = lastInitResult
          /\ (lastInitResult = 0 /\ lastGetResult # 0)
                => returned' = lastGetResult]_vars

\* C14 witness: getFamilySearchSDK returned the instance of the latest
\* initFamilySearchSDK, which was not the first instance created.
C14_Witness ==
    /\ lastCall.op = "get"
    /\ returned = lastInitResult
    /\ returned >= 2

\* ---------------------------------------------------------------------
\* A call initFamilySearchSDK(config) is made while a singleton exists.
InitOnExisting == lastCall'.op = "init" /\ sdkInstance # <<>>

\* C15: initFamilySearchSDK(config) on an existing singleton, config
\* without environment: the same object stays the singleton and is
\* returned, no object is created, environment and appKey keep their
\* values, the access token becomes config.accessToken when that is
\* defined, and nothing at all changes when it is not.
C15_TokenUpdateInPlace ==
    [][(InitOnExisting /\ lastCall'.config.environment = Undefined) =>
          /\ sdkInstance' # <<>>
          /\ sdkInstance'[1].id = sdkInstance[1].id
          /\ returned' = sdkInstance[1].id
          /\ nextId' = nextId
          /\ sdkInstance'[1].environment = sdkInstance[1].environment
          /\ sdkInstance'[1].appKey = sdkInstance[1].appKey
          /\ sdkInstance'[1].accessToken =
                IF lastCall'.config.accessToken # Undefined
                THEN lastCall'.config.accessToken
                ELSE sdkInstance[1].accessToken]_vars

\* C15 witness: the instance an earlier getFamilySearchSDK returned is
\* still the singleton after initFamilySearchSDK({accessToken: tokenB});
\* it holds tokenB and an environment that is not the default.
C15_Witness ==
    /\ lastCall.op = "init"
    /\ lastCall.config.environment = Undefined
    /\ lastCall.config.accessToken = "tokenB"
    /\ lastGetResult # 0 /\ lastGetResult = returned
    /\ sdkInstance[1].accessToken = "tokenB"
    /\ sdkInstance[1].environment = "beta"

\* ---------------------------------------------------------------------
\* C16: initFamilySearchSDK(config) on an existing singleton, config with
\* environment: a new object becomes the singleton and is returned; its
\* environment is config.environment, its access token config.accessToken
\* or null - null when config has none, whatever the old instance held -
\* and its appKey config.appKey or null.
C16_RecreatedFromConfig ==
    [][(InitOnExisting /\ lastCall'.config.environment # Undefined) =>
          /\ sdkInstance' # <<>>
          /\ sdkInstance'[1].id # sdkInstance[1].id
          /\ sdkInstance'[1].id = nextId /\ nextId' = nextId + 1
          /\ returned' = sdkInstance'[1].id
          /\ sdkInstance'[1].environment = lastCall'.config.environment
          /\ sdkInstance'[1].accessToken \in {lastCall'.config.accessToken, Null}
          /\ lastCall'.config.accessToken = Undefined
                => sdkInstance'[1].accessToken = Null
          /\ sdkInstance'[1].appKey \in {lastCall'.config.appKey, Null}
          /\ lastCall'.config.appKey = Undefined
                => sdkInstance'[1].appKey = Null]_vars

\* C16 witness: initFamilySearchSDK({environment: production}) replaced
\* the instance that getFamilySearchSDK had returned; the new instance has
\* no access token.
C16_Witness ==
    /\ lastCall.op = "init"
    /\ lastCall.config.environment = "production"
    /\ lastCall.config.accessToken = Undefined
    /\ lastGetResult # 0 /\ lastGetResult # returned
    /\ sdkInstance[1].environment = "production"
    /\ sdkInstance[1].accessToken = Null

\* ======================================================================
\* Token storage helpers (auth/oauth.ts)
\* ======================================================================
UserIds == {"u1", "u2"}

\* tokens.refreshToken, tokens.environment: optional strings.
RefreshTokenValues == {"refreshA", "", Undefined}
EnvironmentValues == {"beta", Undefined}

\* tokens.expiresAt: an optional number, <<>> when not given.
ExpiresAtValues == {<<>>, <<0>>, <<600000>>}

\* The tokens argument of storeTokens.
TokenSets ==
    [accessToken : AccessTokenValues, expiresAt : ExpiresAtValues,
     refreshToken : RefreshTokenValues, environment : EnvironmentValues]

\* `fs_token_${userId}_${type}`
getTokenStorageKey(userId, type) == "fs_token_" \o userId \o "_" \o type

\* Storage.setItem, Storage.removeItem, String.startsWith
SetItem(storage, key, value) == (key :> value) @@ storage
RemoveItem(storage, key) == [k \in DOMAIN storage \ {key} |-> storage[k]]
StartsWith(key, prefix) ==
    Len(key) >= Len(prefix) /\ SubSeq(key, 1, Len(prefix)) = prefix

\* if (x) for an optional string x.
Truthy(x) == x # Undefined /\ x # ""

\* The writes of storeTokens to sessionStorage.
StoreSession(session, userId, tokens) ==
    LET withAccess ==
            SetItem(session, getTokenStorageKey(userId, "access"),
                    tokens.accessToken)
    IN  IF tokens.expiresAt # <<>> /\ tokens.expiresAt[1] # 0
        THEN SetItem(withAccess, getTokenStorageKey(userId, "expires"),
                     ToString(tokens.expiresAt[1]))
        ELSE withAccess

\* Variant: the access token is kept in localStorage as well, to outlive
\* the session.
StoreLocalWithAccess(local, userId, tokens) ==
    LET withAccess ==
            SetItem(local, getTokenStorageKey(userId, "access"),
                    tokens.accessToken)
        withRefresh ==
            IF Truthy(tokens.refreshToken)
            THEN SetItem(withAccess, getTokenStorageKey(userId, "refresh"),
                         tokens.refreshToken)
            ELSE withAccess
    IN  IF Truthy(tokens.environment)
        THEN SetItem(withRefresh, getTokenStorageKey(userId, "environment"),
                     tokens.environment)
        ELSE withRefresh

\* The writes of storeTokens to localStorage.
StoreLocal(local, userId, tokens) ==
    LET withRefresh ==
            IF Truthy(tokens.refreshToken)
            THEN SetItem(local, getTokenStorageKey(userId, "refresh"),
                         tokens.refreshToken)
            ELSE local
    IN  IF Truthy(tokens.environment)
        THEN SetItem(withRefresh, getTokenStorageKey(userId, "environment"),
                     tokens.environment)
        ELSE withRefresh

\* keysToRemove of clearAllTokens.
KeysToRemove ==
    {k \in DOMAIN sessionStorage \cup DOMAIN localStorage :
        StartsWith(k, "fs_token_")}

\* storage without the keys of the set.
RemoveItems(storage, keys) == [k \in DOMAIN storage \ keys |-> storage[k]]

\* storeTokens(userId, tokens): throws unless both storages exist.
storeTokens(userId, tokens) ==
    /\ IF ~storageDefined.session \/ ~storageDefined.local
       THEN /\ lastCall' = [op |-> "storeTokens", userId |-> userId,
                            tokens |-> tokens, threw |-> TRUE]
            /\ UNCHANGED <<sessionStorage, localStorage>>
       ELSE /\ sessionStorage' = StoreSession(sessionStorage, userId, tokens)
            /\ localStorage' = StoreLocal(localStorage, userId, tokens)
            /\ lastCall' = [op |-> "storeTokens", userId |-> userId,
                            tokens |-> tokens, threw |-> FALSE]
    /\ UNCHANGED <<storageDefined, issuedState, sdkInstance, nextId, returned,
                   lastInitResult, lastGetResult, pending, converterVars>>

\* clearStoredTokens(userId)
clearStoredTokens(userId) ==
    /\ sessionStorage' =
           IF storageDefined.session
           THEN RemoveItem(RemoveItem(sessionStorage,
                                      getTokenStorageKey(userId, "access")),
                           getTokenStorageKey(userId, "expires"))
           ELSE sessionStorage
    /\ localStorage' =
           IF storageDefined.local
           THEN RemoveItem(RemoveItem(localStorage,
                                      getTokenStorageKey(userId, "refresh")),
                           getTokenStorageKey(userId, "environment"))
           ELSE localStorage
    /\ lastCall' = [op |-> "clearStoredTokens", userId |-> userId,
                    threw |-> FALSE]
    /\ UNCHANGED <<storageDefined, issuedState, sdkInstance, nextId, returned,
                   lastInitResult, lastGetResult, pending, converterVars>>

\* clearAllTokens()
clearAllTokens ==
    /\ IF ~storageDefined.session \/ ~storageDefined.local
       THEN UNCHANGED <<sessionStorage, localStorage>>
       ELSE /\ sessionStorage' = RemoveItems(sessionStorage, KeysToRemove)
            /\ localStorage' = RemoveItems(localStorage, KeysToRemove)
    /\ lastCall' = [op |-> "clearAllTokens", userId |-> Undefined,
                    threw |-> FALSE]
    /\ UNCHANGED <<storageDefined, issuedState, sdkInstance, nextId, returned,
                   lastInitResult, lastGetResult, pending, converterVars>>

\* What the page keeps in the storages for itself.
OwnSessionItems == "app_state" :> "open"
OwnLocalItems == "theme" :> "dark"

\* A page in an environment with or without each storage API; an existing
\* storage holds the page's own item.
InitTokens ==
    /\ ConverterUnused
    /\ ModuleLoaded
    /\ storageDefined \in [session : BOOLEAN, local : BOOLEAN]
    /\ sessionStorage = IF storageDefined.session THEN OwnSessionItems ELSE <<>>
    /\ localStorage = IF storageDefined.local THEN OwnLocalItems ELSE <<>>
    /\ issuedState = <<>>

NextTokens ==
    \/ \E userId \in UserIds, tokens \in TokenSets : storeTokens(userId, tokens)
    \/ \E userId \in UserIds : clearStoredTokens(userId)
    \/ clearAllTokens

\* Calls of the token storage helpers, in any order.
SpecTokens == InitTokens /\ [][NextTokens]_vars

\* ---------------------------------------------------------------------
\* The key of some user for one of the types.
IsKeyOf(key, types) ==
    \E u \in UserIds, t \in types : key = getTokenStorageKey(u, t)

\* The values that are access tokens or expiry times, and those that are
\* refresh tokens or environments.
SessionOnlyValues ==
    {v \in AccessTokenValues : v # ""}
    \cup {ToString(e[1]) : e \in ExpiresAtValues \ {<<>>}}
LocalOnlyValues ==
    {v \in RefreshTokenValues \cup EnvironmentValues : Truthy(v)}

\* C17: the fs_token_ keys of sessionStorage are access and expires keys
\* and those of localStorage are refresh and environment keys; no value of
\* localStorage is an access token or an expiry time, and no value of
\* sessionStorage is a refresh token or an environment.
C17_TokenPlacement ==
    /\ \A k \in DOMAIN sessionStorage :
          /\ StartsWith(k, "fs_token_") => IsKeyOf(k, {"access", "expires"})
          /\ IsKeyOf(k, {"access"}) => sessionStorage[k] \in AccessTokenValues
          /\ sessionStorage[k] \notin LocalOnlyValues
    /\ \A k \in DOMAIN localStorage :
          /\ StartsWith(k, "fs_token_") => IsKeyOf(k, {"refresh", "environment"})
          /\ IsKeyOf(k, {"refresh"}) => localStorage[k] \in RefreshTokenValues
          /\ localStorage[k] \notin SessionOnlyValues

\* C17 witness: after clearStoredTokens for one user the other user's four
\* items are in place, access token and expiry in sessionStorage, refresh
\* token and environment in localStorage.
C17_Witness ==
    /\ lastCall.op = "clearStoredTokens"
    /\ \E u \in UserIds \ {lastCall.userId} :
          /\ getTokenStorageKey(u, "access") \in DOMAIN sessionStorage
          /\ getTokenStorageKey(u, "expires") \in DOMAIN sessionStorage
          /\ getTokenStorageKey(u, "refresh") \in DOMAIN localStorage
          /\ getTokenStorageKey(u, "environment") \in DOMAIN localStorage

\* ======================================================================
\* The resolver loop; the legacy rule; the merged relationship list
\* ======================================================================
\* One invocation on a person list of all or all but one identifier; the
\* function runs synchronously, so an iteration of its loop that can be
\* taken is taken.
SpecResolver ==
    /\ InitWith(PairInputs, 1)
    /\ [][Next]_vars
    /\ WF_vars(ResolverIteration)

\* C18: in the loop every pass keeps the persons it found, the loop goes
\* on only after a pass that added a person and is left for the INDI stage
\* after the first pass that added none - the set then is closed under
\* rules 3a and 3b - and a loop that was entered is left.
C18_ResolverTerminates ==
    /\ [][pc = "loop" =>
            /\ connectablePersons \subseteq connectablePersons'
            /\ pc' = "loop" => connectablePersons' # connectablePersons
            /\ pc' # "loop" =>
                  /\ pc' = "indi"
                  /\ connectablePersons' = connectablePersons
                  /\ AddChildrenOfConnectable(connectablePersons', childToParents)
                        = connectablePersons'
                  /\ AddSpousesOfConnectable(connectablePersons', families)
                        = connectablePersons']_vars
    /\ (pc = "loop") ~> (pc = "indi")

\* C18 witness: the loop is in a pass after one that added a person, and
\* this pass will add another.
C18_Witness ==
    /\ pc = "loop"
    /\ connectablePersons # AddSpousesOfAncestry(ancestryPersonIds, families)
    /\ ResolverPass(connectablePersons, childToParents, families)
          # connectablePersons

\* ---------------------------------------------------------------------
\* The parent-child edges of the merged relationship list.
ParentChildEdges ==
    {i \in DOMAIN allRelationships : allRelationships[i].type = ParentChildType}

\* The persons of the input list that edge i names as parent, and as
\* parent or child.
ParentsOfEdge(i) ==
    {allRelationships[i].person1, allRelationships[i].parent2} \cap PersonIds
PersonsOfEdge(i) ==
    ParentsOfEdge(i) \cup ({allRelationships[i].person2} \cap PersonIds)

\* The resolver has finished and there was no seed.
LegacyResolved == Resolved /\ ~SeedMode

\* C19 (as claimed): without a seed, every person of the input list that a
\* parent-child edge of the merged list names as parent or as child is
\* connectable.
C19_LegacyEveryEdgePerson ==
    LegacyResolved =>
        \A i \in ParentChildEdges : PersonsOfEdge(i) \subseteq connectablePersons

\* C19 (amended): without a seed, the connectable persons are exactly the
\* persons of the edges whose child is in the input list and that have a
\* parent in the input list: the child and those parents.
C19_LegacyKeptEdges ==
    LegacyResolved =>
        connectablePersons =
            UNION {PersonsOfEdge(i) :
                      i \in {j \in ParentChildEdges :
                                /\ allRelationships[j].person2 \in PersonIds
                                /\ ParentsOfEdge(j) # {}}}

\* C19 witness: without a seed, one edge made its persons connectable and
\* another, whose child is not in the input list, left its parent out.
C19_Witness ==
    /\ LegacyResolved
    /\ connectablePersons # {}
    /\ \E i \in ParentChildEdges :
          /\ allRelationships[i].person2 \notin PersonIds
          /\ allRelationships[i].person1 \in PersonIds \ connectablePersons

\* ---------------------------------------------------------------------
\* Inputs with detail blobs: relationship records under two identifiers,
\* one of them of the form the converter gives to the halves of a
\* composite record, so that root entries, detail entries and converted
\* composite records can share an identifier.
DetailRelIds == {"R1", "C1-p1"}

DetailRels ==
    {Rel(id, CoupleType, IdOf(1), IdOf(2), Undefined) : id \in DetailRelIds}
    \cup
    {Rel(id, ParentChildType, IdOf(1), IdOf(NumIds), Undefined) :
        id \in DetailRelIds}

\* Relationship lists of at most n records.
DetailRelLists(n) ==
    UNION {[1..k -> DetailRels] : k \in 0..n}

\* childAndParentsRelationships of a detail blob: none, or the record C1
\* of a child with one or two parents.
DetailCapLists ==
    {<<>>,
     <<Cap("C1", IdOf(1), IdOf(2), IdOf(NumIds))>>,
     <<Cap("C1", IdOf(1), Undefined, IdOf(NumIds))>>}

\* The persons P1 .. P<NumIds>, the first two with detail relationships.
DetailPersonLists ==
    {[i \in 1..NumIds |->
        Person(IdOf(i), GenderUnder(0, i),
               IF i = 1 THEN r1 ELSE IF i = 2 THEN r2 ELSE <<>>,
               IF i = 1 THEN c1 ELSE <<>>,
               <<>>)] :
        r1 \in DetailRelLists(1), r2 \in DetailRelLists(1), c1 \in DetailCapLists}

DetailInputs ==
    {Pedigree(ps, rs) : ps \in DetailPersonLists, rs \in DetailRelLists(MaxRels)}

\* One invocation on an input with detail blobs.
InitDetails == InitWith(DetailInputs, 1)

SpecDetails == InitDetails /\ [][Next]_vars

\* The relationship records in processing order: the root list, then for
\* each person the detail relationships and the halves of the composite
\* records.
CapHalves(cap) ==
    (IF cap.parent1 # Undefined /\ cap.child # Undefined
     THEN <<Rel(cap.id \o "-p1", ParentChildType, cap.parent1, cap.child,
                cap.parent2)>>
     ELSE <<>>)
    \o
    (IF cap.parent2 # Undefined /\ cap.child # Undefined
     THEN <<Rel(cap.id \o "-p2", ParentChildType, cap.parent2, cap.child,
                cap.parent1)>>
     ELSE <<>>)

RECURSIVE AllCapHalves(_)
AllCapHalves(caps) ==
    IF caps = <<>> THEN <<>> ELSE CapHalves(Head(caps)) \o AllCapHalves(Tail(caps))

RECURSIVE DetailRecords(_)
DetailRecords(persons) ==
    IF persons = <<>> THEN <<>>
    ELSE Head(persons).relationships
         \o AllCapHalves(Head(persons).childAndParentsRelationships)
         \o DetailRecords(Tail(persons))

ProcessingOrder == pedigreeData.relationships \o DetailRecords(pedigreeData.persons)

\* The records of s that no earlier record of s shares the id with.
FirstById(s) ==
    SelectSeq([i \in DOMAIN s |->
                  [rel |-> s[i],
                   first |-> \A j \in 1..(i - 1) : s[j].id # s[i].id]],
              LAMBDA e : e.first)

\* The merged relationship list has been built.
Merged == pc \in {"resolve", "loop", "indi", "fam", "links"} \/ Returned

\* C20 (as claimed): no two entries of the merged relationship list have
\* the same id, and the list holds, in processing order, the first record
\* of each id.
C20_MergedById ==
    Merged =>
        /\ \A i, j \in DOMAIN allRelationships :
              allRelationships[i].id = allRelationships[j].id => i = j
        /\ allRelationships =
              [i \in DOMAIN FirstById(ProcessingOrder) |->
                  FirstById(ProcessingOrder)[i].rel]

\* ======================================================================
\* The family graph and the emitted records
\* ======================================================================
\* The merged relationships of the given type.
EdgesOfType(type) ==
    {i \in DOMAIN allRelationships : allRelationships[i].type = type}

\* ---------------------------------------------------------------------
\* C21: once the family graph is built every person it refers to is an
\* input person: every spouse and every child of every family, every key
\* and every parent of childToParents; parent lists are non-empty and
\* without duplicates; a ParentChild edge with an absent child leaves no
\* entry for that child, and a Couple edge with an absent endpoint leaves
\* no family under its key.
C21_GraphWithinPersons ==
    Merged =>
        /\ \A i \in DOMAIN families :
              /\ Range(families[i].spouses) \subseteq PersonIds
              /\ Range(families[i].children) \subseteq PersonIds
        /\ \A i \in DOMAIN childToParents :
              LET parents == childToParents[i].parents
              IN  /\ childToParents[i].key \in PersonIds
                  /\ Range(parents) \subseteq PersonIds
                  /\ Len(parents) >= 1
                  /\ \A a, b \in DOMAIN parents :
                        parents[a] = parents[b] => a = b
        /\ \A i \in EdgesOfType(ParentChildType) :
              allRelationships[i].person2 \notin PersonIds
                  => ~HasKey(childToParents, allRelationships[i].person2)
        /\ \A i \in EdgesOfType(CoupleType) :
              LET rel == allRelationships[i]
              IN  {rel.person1, rel.person2} \ PersonIds # {}
                      => ~HasKey(families, SortedKey(rel.person1, rel.person2))

\* C21 witness: the graph was built from a ParentChild edge that has one
\* parent in the input and one absent, and a Couple edge with an absent
\* endpoint; the child of the first edge has a family.
C21_Witness ==
    /\ Merged
    /\ \E i \in EdgesOfType(ParentChildType) :
          LET rel == allRelationships[i]
          IN  /\ rel.person2 \in PersonIds
              /\ rel.person1 \in PersonIds
              /\ rel.parent2 \in Ids \ PersonIds
              /\ HasKey(childToParents, rel.person2)
              /\ \E f \in DOMAIN families :
                    rel.person2 \in Range(families[f].children)
    /\ \E i \in EdgesOfType(CoupleType) :
          {allRelationships[i].person1, allRelationships[i].person2}
              \ PersonIds # {}

\* ---------------------------------------------------------------------
\* Inputs with links and facts: persons P1 (male) and P2 (female), P1 with
\* or without a link of its own and with at most one fact; at most one
\* Couple relationship between them, with at most one marriage fact.
FactHrefs ==
    {Undefined,
     "https://apibeta.familysearch.org/platform/tree/persons/P1?flag=1",
     "https://www.familysearch.org/ark:/61903/1:1:P1"}

PersonFactLists ==
    {<<>>} \cup {<<Fact(t, h)>> : t \in {ResidenceType, BirthType, Undefined},
                                h \in FactHrefs}

MarriageFactLists == {<<>>} \cup {<<Fact(MarriageType, h)>> : h \in FactHrefs}

LinkPersonLists ==
    {[PersonList(2, 0) EXCEPT ![1] = WithLink(WithFacts(@, fs), h)] :
        fs \in PersonFactLists,
        h \in {Undefined,
               "https://api-integ.familysearch.org/platform/tree/persons/P1"}}

LinkRelLists ==
    {<<>>} \cup
    {<<WithFacts(Rel("R1", CoupleType, IdOf(1), IdOf(2), Undefined), fs)>> :
        fs \in MarriageFactLists}

LinkInputs == {Pedigree(ps, rs) : ps \in LinkPersonLists, rs \in LinkRelLists}

\* options.includeLinks: true, false or not given.
IncludeLinksValues == {"true", "false", Undefined}

\* One invocation on an input with links, with any includeLinks option.
InitLinks == InitWithOptions(LinkInputs, 1, IncludeLinksValues)

SpecLinks == InitLinks /\ [][Next]_vars

\* The indices of the link lines of a text.
LinkLines(out) ==
    {i \in DOMAIN out : Len(out[i]) >= 2 /\ out[i][2] = "_FS_LINK"}

\* ---------------------------------------------------------------------
\* C22 (as claimed): a text returned under includeLinks=false has no line
\* with the tag _FS_LINK, at level 1 or at level 2.
C22_NoLinkLines ==
    (Returned /\ includeLinksOption = "false") => LinkLines(result.output) = {}

\* ---------------------------------------------------------------------
\* The lines of a text that refer to a person from a FAM record.
FamilyMemberLines(out) ==
    {i \in DOMAIN out :
        /\ Len(out[i]) = 3
        /\ out[i][1] = "1"
        /\ out[i][2] \in {"HUSB", "WIFE", "CHIL"}}

\* The text has an INDI record under the identifier gedcomId, and it is
\* the record of a person of the input.
HasIndiRecord(out, gedcomId) ==
    \E j \in DOMAIN out :
        /\ out[j] = IndiHeader(gedcomId)
        /\ \E p \in PersonIds :
              /\ \E k \in Block(out, j) : out[k] = <<"1", "_FS_ID", p>>
              /\ Get(personIdMap, p).id = gedcomId

\* C23: whatever allowOrphanFamilies was, every HUSB, WIFE and CHIL line of
\* a returned text names the identifier of an INDI record of that text.
C23_ReferentialIntegrity ==
    Returned =>
        \A i \in FamilyMemberLines(result.output) :
            HasIndiRecord(result.output, result.output[i][3])

\* C23 witness: without allowOrphanFamilies=true a text was returned that
\* has a FAM record with a spouse line and a CHIL line, while a person of
\* the input has no INDI record.
C23_Witness ==
    /\ Returned
    /\ result.allow # "true"
    /\ PersonIds \ EmittedPersons(result.output) # {}
    /\ \E i, j \in FamilyMemberLines(result.output) :
          result.output[i][2] = "HUSB" /\ result.output[j][2] = "CHIL"

AcceptedEdgePersons ==
    UNION {PersonsOfEdge(i) :
              i \in {j \in ParentChildEdges :
                        /\ allRelationships[j].person2 \in PersonIds
                        /\ ParentsOfEdge(j) # {}}}

\* Family i of the map comes from a Couple edge and has no child.
ChildlessCouple(i) ==
    /\ families[i].children = <<>>
    /\ \E j \in EdgesOfType(CoupleType) :
          SortedKey(allRelationships[j].person1, allRelationships[j].person2)
              = families[i].key

\* C25: in a text returned without a seed and without
\* allowOrphanFamilies=true, a childless Couple family none of whose
\* spouses is a person of an accepted parent-child edge has no FAM record,
\* and each of its spouses whose other families are all orphan has no INDI
\* record.
C25_LegacyOrphanCouple ==
    (Returned /\ ~SeedMode /\ result.allow # "true") =>
        \A i \in DOMAIN families :
            (/\ ChildlessCouple(i)
             /\ Range(families[i].spouses) \cap AcceptedEdgePersons = {})
            => /\ NoMemberConnectable(families[i])
               /\ FamHeaderIndex(families[i].key) = 0
               /\ \A s \in Range(families[i].spouses) :
                     (\A j \in FamiliesOf(s) \ {i} :
                         NoMemberConnectable(families[j]))
                     => s \notin EmittedPersons(result.output)

\* C25 witness: such a text, with a childless couple of two persons who
\* have no INDI record, next to a FAM record of another family.
C25_Witness ==
    /\ Returned
    /\ ~SeedMode
    /\ result.allow # "true"
    /\ FamHeaderCount(result.output) >= 1
    /\ \E i \in DOMAIN families :
          /\ ChildlessCouple(i)
          /\ Len(families[i].spouses) = 2
          /\ Range(families[i].spouses) \cap AcceptedEdgePersons = {}
          /\ Range(families[i].spouses) \cap EmittedPersons(result.output) = {}

\* ======================================================================
\* OAuth state helpers (auth/oauth.ts)
\* ======================================================================
OAUTH_STORAGE_KEYS ==
    [state |-> "fs_oauth_state", linkMode |-> "fs_oauth_link_mode",
     lang |-> "fs_oauth_lang", parentUid |-> "fs_oauth_parent_uid"]

\* The state argument: any string, the empty one included.
OAuthStates == {"", "s1", "s2"}

\* The options of storeOAuthState; isLinkMode FALSE also stands for absent.
OAuthOptions ==
    [isLinkMode : BOOLEAN, lang : {"en", Undefined},
     parentUid : {"uidA", Undefined}]

\* Storage.getItem: null when the key is absent.
GetItem(storage, key) == IF key \in DOMAIN storage THEN storage[key] ELSE Null

\* setItem when the option is given, removeItem otherwise.
SetOrRemove(storage, key, given, value) ==
    IF given THEN SetItem(storage, key, value) ELSE RemoveItem(storage, key)

\* The writes of storeOAuthState to localStorage.
StoreOAuth(local, state, options) ==
    LET withState == SetItem(local, OAUTH_STORAGE_KEYS.state, state)
        withMode == SetOrRemove(withState, OAUTH_STORAGE_KEYS.linkMode,
                                options.isLinkMode, "true")
        withLang == SetOrRemove(withMode, OAUTH_STORAGE_KEYS.lang,
                                Truthy(options.lang), options.lang)
    IN  SetOrRemove(withLang, OAUTH_STORAGE_KEYS.parentUid,
                    Truthy(options.parentUid), options.parentUid)

\* Variant: the clean-up leaves the state in place.
ClearOAuthMetadata(local) ==
    RemoveItems(local, {OAUTH_STORAGE_KEYS.linkMode, OAUTH_STORAGE_KEYS.lang,
                        OAUTH_STORAGE_KEYS.parentUid})

\* The clean-up of validateOAuthState.
ClearOAuth(local) ==
    RemoveItems(local, {OAUTH_STORAGE_KEYS.state, OAUTH_STORAGE_KEYS.linkMode,
                        OAUTH_STORAGE_KEYS.lang, OAUTH_STORAGE_KEYS.parentUid})

\* x || undefined for a value read from a storage.
OrUndefined(x) == IF x = Null \/ x = "" THEN Undefined ELSE x

\* The value validateOAuthState returns.
Validation(local, state) ==
    [valid |-> GetItem(local, OAUTH_STORAGE_KEYS.state) = state,
     isLinkMode |-> GetItem(local, OAUTH_STORAGE_KEYS.linkMode) = "true",
     lang |-> OrUndefined(GetItem(local, OAUTH_STORAGE_KEYS.lang)),
     parentUid |-> OrUndefined(GetItem(local, OAUTH_STORAGE_KEYS.parentUid))]

\* storeOAuthState(state, options): throws when there is no localStorage.
storeOAuthState(state, options) ==
    /\ IF ~storageDefined.local
       THEN /\ lastCall' = [op |-> "storeOAuthState", state |-> state,
                            threw |-> TRUE]
            /\ UNCHANGED localStorage
       ELSE /\ localStorage' = StoreOAuth(localStorage, state, options)
            /\ lastCall' = [op |-> "storeOAuthState", state |-> state,
                            threw |-> FALSE]
    /\ issuedState' = <<state>>
    /\ UNCHANGED <<sessionStorage, storageDefined, sdkInstance, nextId,
                   returned, lastInitResult, lastGetResult, pending,
                   converterVars>>

\* validateOAuthState(state)
validateOAuthState(state) ==
    /\ IF ~storageDefined.local
       THEN /\ returned' = [valid |-> FALSE, isLinkMode |-> FALSE,
                            lang |-> Undefined, parentUid |-> Undefined]
            /\ UNCHANGED localStorage
       ELSE /\ returned' = Validation(localStorage, state)
            /\ localStorage' = ClearOAuth(localStorage)
    /\ lastCall' = [op |-> "validateOAuthState", state |-> state,
                    threw |-> FALSE]
    /\ issuedState' = <<>>
    /\ UNCHANGED <<sessionStorage, storageDefined, sdkInstance, nextId,
                   lastInitResult, lastGetResult, pending, converterVars>>

\* The token sets stored next to the OAuth state: an access token alone,
\* or with a refresh token and an environment.
PageTokenSets ==
    {t \in TokenSets :
        /\ t.accessToken = "tokenA"
        /\ t.expiresAt = <<>>
        /\ \/ t.refreshToken = Undefined /\ t.environment = Undefined
           \/ t.refreshToken = "refreshA" /\ t.environment = "beta"}

NextOAuth ==
    \/ \E state \in OAuthStates, options \in OAuthOptions :
          storeOAuthState(state, options)
    \/ \E state \in OAuthStates : validateOAuthState(state)
    \/ \E tokens \in PageTokenSets : storeTokens("u1", tokens)
    \/ clearStoredTokens("u1")
    \/ clearAllTokens

\* Calls of the OAuth state helpers and the token storage helpers, in any
\* order, on the same page.
SpecOAuth == InitTokens /\ [][NextOAuth]_vars

\* ---------------------------------------------------------------------
\* The OAuth items of localStorage.
OAuthItems ==
    DOMAIN localStorage \cap
        {OAUTH_STORAGE_KEYS.state, OAUTH_STORAGE_KEYS.linkMode,
         OAUTH_STORAGE_KEYS.lang, OAUTH_STORAGE_KEYS.parentUid}

\* C26: a validateOAuthState(s) call returns valid=true only if s went to
\* the most recent storeOAuthState and no validateOAuthState was called
\* since (and then it does, where localStorage exists); after every
\* validateOAuthState call, and until the next storeOAuthState, localStorage
\* holds neither the state nor its metadata.
C26_SingleUse ==
    /\ [][lastCall'.op = "validateOAuthState" =>
            /\ returned'.valid => issuedState = <<lastCall'.state>>
            /\ (storageDefined.local /\ issuedState = <<lastCall'.state>>)
                  => returned'.valid
            /\ issuedState' = <<>>]_vars
    /\ [](issuedState = <<>> => OAuthItems = {})

\* C26 witness: a validateOAuthState call found the state it was given and
\* returned valid=true with the metadata; the OAuth items are gone while a
\* user's refresh token is still there.
C26_Witness ==
    /\ lastCall.op = "validateOAuthState"
    /\ lastCall.state = "s1"
    /\ returned.valid
    /\ returned.isLinkMode
    /\ returned.lang = "en"
    /\ OAuthItems = {}
    /\ \E u \in UserIds : getTokenStorageKey(u, "refresh") \in DOMAIN localStorage

\* ======================================================================
\* Reading the stored access token (auth/oauth.ts)
\* ======================================================================
\* const EXPIRATION_BUFFER = 5 * 60 * 1000
EXPIRATION_BUFFER == 5 * 60 * 1000

\* Date.now() at the calls of getStoredAccessToken, in milliseconds.
NowValues == {0, 300000, 300001, 900000}

\* parseInt of a string of decimal digits.
RECURSIVE ParseInt(_)
ParseInt(str) ==
    IF Len(str) = 0 THEN 0
    ELSE 10 * ParseInt(SubSeq(str, 1, Len(str) - 1))
         + (CHOOSE d \in 0..9 : ToString(d) = SubSeq(str, Len(str), Len(str)))

\* The value getStoredAccessToken returns where sessionStorage exists.
StoredAccessToken(session, userId, now) ==
    LET token == GetItem(session, getTokenStorageKey(userId, "access"))
        expiresAt == GetItem(session, getTokenStorageKey(userId, "expires"))
    IN  IF token = Null \/ token = "" THEN Null
        ELSE IF /\ expiresAt # Null
                /\ expiresAt # ""
                /\ now > ParseInt(expiresAt) - EXPIRATION_BUFFER
        THEN Null
        ELSE token

\* getStoredAccessToken(userId), called when Date.now() is now.
getStoredAccessToken(userId, now) ==
    /\ returned' = IF ~storageDefined.session THEN Null
                   ELSE StoredAccessToken(sessionStorage, userId, now)
    /\ lastCall' = [op |-> "getStoredAccessToken", userId |-> userId,
                    now |-> now, threw |-> FALSE]
    /\ UNCHANGED <<sessionStorage, localStorage, storageDefined, issuedState,
                   sdkInstance, nextId, lastInitResult, lastGetResult,
                   pending, converterVars>>

NextAccess ==
    \/ \E userId \in UserIds, tokens \in TokenSets : storeTokens(userId, tokens)
    \/ \E userId \in UserIds, now \in NowValues :
          getStoredAccessToken(userId, now)
    \/ \E userId \in UserIds : clearStoredTokens(userId)
    \/ clearAllTokens

\* Tokens are stored, read and cleared, in any order.
SpecAccess == InitTokens /\ [][NextAccess]_vars

\* ---------------------------------------------------------------------
\* A getStoredAccessToken call for the user of the storeTokens call that
\* came right before it and did not throw.
ReadAfterStore ==
    /\ lastCall.op = "storeTokens"
    /\ ~lastCall.threw
    /\ lastCall'.op = "getStoredAccessToken"
    /\ lastCall'.userId = lastCall.userId

\* C27 (as claimed, for a non-empty access token): when the stored tokens
\* have no expiresAt, or one more than five minutes after the time of the
\* read, the read returns the stored access token, whatever was stored for
\* the user before.
C27_ReadsWhatWasStored ==
    [][(/\ ReadAfterStore
        /\ lastCall.tokens.accessToken # ""
        /\ \/ lastCall.tokens.expiresAt = <<>>
           \/ lastCall.tokens.expiresAt[1] - lastCall'.now > EXPIRATION_BUFFER)
       => returned' = lastCall.tokens.accessToken]_vars

\* ======================================================================
\* The request methods of the client (FamilySearchSDK)
\* ======================================================================
ENVIRONMENT_CONFIGS ==
    [production |-> [platformHost |-> "https://api.familysearch.org"],
     beta |-> [platformHost |-> "https://apibeta.familysearch.org"],
     integration |-> [platformHost |-> "https://api-integ.familysearch.org"]]

\* The methods that catch a failed request, and one that does not.
NullReturningMethods ==
    {"getCurrentUser", "getPerson", "getPersonWithDetails", "getPersonNotes",
     "getPersonMemories", "getCoupleRelationship",
     "getChildAndParentsRelationship", "searchPlaces", "getPlace",
     "exportGEDCOM"}
Methods == NullReturningMethods \cup {"getAncestry"}

\* The url a method requests, for person P1, relationship R1, place PL1
\* and the place name Paris.
UrlOf(method) ==
    CASE method = "getCurrentUser" -> "/platform/users/current"
      [] method = "getPerson" -> "/platform/tree/persons/P1"
      [] method = "getPersonWithDetails" ->
            "/platform/tree/persons/P1?sourceDescriptions=true"
      [] method = "getPersonNotes" -> "/platform/tree/persons/P1/notes"
      [] method = "getPersonMemories" -> "/platform/tree/persons/P1/memories"
      [] method = "getCoupleRelationship" ->
            "/platform/tree/couple-relationships/R1"
      [] method = "getChildAndParentsRelationship" ->
            "/platform/tree/child-and-parents-relationships/R1"
      [] method = "searchPlaces" -> "/platform/places/search?name=Paris"
      [] method = "getPlace" -> "/platform/places/PL1"
      [] method = "exportGEDCOM" -> "/platform/tree/persons/P1/gedcomx"
      [] method = "getAncestry" ->
            "/platform/tree/ancestry?person=P1&generations=4"

\* The methods that return the first entry of a list of the data
\* (users, persons, places); the others return the data.
FirstOfListMethods == {"getCurrentUser", "getPerson", "getPlace"}

\* A value of the client: kind is that of the JavaScript value (undefined,
\* null, an object with or without its list, a string, an entry of a list,
\* an error).
Value(kind, hasList, list, text) ==
    [kind |-> kind, hasList |-> hasList, list |-> list, text |-> text]
NoBody == Value(Undefined, FALSE, <<>>, "")
NullValue == Value("null", FALSE, <<>>, "")
ErrorValue(message) == Value("error", FALSE, <<>>, message)

\* What response.json() gives: null, an object without the list, with an
\* empty list, with a list of one entry, or a string.
Bodies ==
    {NullValue,
     Value("object", FALSE, <<>>, ""),
     Value("object", TRUE, <<>>, ""),
     Value("object", TRUE, <<"first">>, ""),
     Value("string", FALSE, <<>>, ""),
     Value("string", FALSE, <<>>, "gedcomx")}

\* What fetch does: it rejects (network error), or it gives a response
\* with a 2xx status or another one, whose content type is not JSON, or is
\* JSON that cannot be parsed, or is JSON with a body.
FetchOutcomes ==
    {[fetch |-> "rejects", ok |-> FALSE, json |-> "absent", body |-> NoBody]}
    \cup {[fetch |-> "responds", ok |-> ok, json |-> j, body |-> NoBody] :
             ok \in BOOLEAN, j \in {"absent", "unparsable"}}
    \cup {[fetch |-> "responds", ok |-> ok, json |-> "parsed", body |-> b] :
             ok \in BOOLEAN, b \in Bodies}

\* The request as sent: url and headers.
RequestOf(instance, method) ==
    LET fullUrl ==
            IF StartsWith(UrlOf(method), "http") THEN UrlOf(method)
            ELSE ENVIRONMENT_CONFIGS[instance.environment].platformHost
                 \o UrlOf(method)
        requiresAuth == StrIncludes(fullUrl, "/platform/")
    IN  [method |-> method,
         fullUrl |-> fullUrl,
         authorization |->
             IF instance.accessToken # Null /\ instance.accessToken # ""
                /\ requiresAuth
             THEN "Bearer " \o instance.accessToken ELSE Undefined,
         appKey |-> IF instance.appKey # Null THEN instance.appKey
                    ELSE Undefined]

\* How the promise of request() settles.
RequestSettles(outcome) ==
    LET data == IF outcome.json = "parsed" THEN outcome.body ELSE NoBody
    IN  IF outcome.fetch = "rejects"
        THEN [settled |-> "rejected", value |-> ErrorValue("fetch failed")]
        ELSE IF ~outcome.ok
        THEN [settled |-> "rejected",
              value |-> ErrorValue("FamilySearch API error")]
        ELSE [settled |-> "resolved", value |-> data]

\* x || null.
OrNull(x) ==
    IF x.kind = Undefined \/ x.kind = "null" THEN NullValue
    ELSE IF x.kind = "string" /\ x.text = "" THEN NullValue
    ELSE x

\* response.data?.users?.[0] and the like.
FirstOfList(data) ==
    IF data.kind = "object" /\ data.hasList /\ data.list # <<>>
    THEN Value("entry", FALSE, <<>>, data.list[1]) ELSE NoBody

\* Variant: the method has no catch.
MethodSettlesUncaught(method, requestSettled) ==
    IF requestSettled.settled = "rejected" THEN requestSettled
    ELSE IF method \in FirstOfListMethods
    THEN [settled |-> "resolved",
          value |-> OrNull(FirstOfList(requestSettled.value))]
    ELSE [settled |-> "resolved", value |-> OrNull(requestSettled.value)]

\* How the promise of a method settles: the null-returning methods catch
\* a rejected request, getAncestry returns the promise of the request.
MethodSettles(method, requestSettled) ==
    IF method \notin NullReturningMethods THEN requestSettled
    ELSE IF requestSettled.settled = "rejected"
    THEN [settled |-> "resolved", value |-> NullValue]
    ELSE IF method \in FirstOfListMethods
    THEN [settled |-> "resolved",
          value |-> OrNull(FirstOfList(requestSettled.value))]
    ELSE [settled |-> "resolved", value |-> OrNull(requestSettled.value)]

\* A method of the global instance is called: the request goes out.
callMethod(method) ==
    /\ sdkInstance # <<>>
    /\ pending = <<>>
    /\ pending' = <<RequestOf(sdkInstance[1], method)>>
    /\ lastCall' = [op |-> method, phase |-> "called"]
    /\ returned' = 0
    /\ UNCHANGED <<sdkInstance, nextId, lastInitResult, lastGetResult,
                   converterVars, storageVars>>

\* fetch settles, and with it the promise the method returned.
settle(outcome) ==
    /\ pending # <<>>
    /\ pending' = <<>>
    /\ returned' = MethodSettles(pending[1].method, RequestSettles(outcome))
    /\ lastCall' = [op |-> pending[1].method, phase |-> "settled",
                    outcome |-> outcome]
    /\ UNCHANGED <<sdkInstance, nextId, lastInitResult, lastGetResult,
                   converterVars, storageVars>>

NextRequests ==
    \/ \E config \in Configs : initFamilySearchSDK(config)
    \/ resetFamilySearchSDK
    \/ \E token \in AccessTokenValues : setAccessToken(token)
    \/ clearAccessToken
    \/ \E method \in Methods : callMethod(method)
    \/ \E outcome \in FetchOutcomes : settle(outcome)

\* Requests of the global instance, one at a time, while the instance is
\* configured, reset and given tokens.
SpecRequests == InitSdk /\ [][NextRequests]_vars

\* ---------------------------------------------------------------------
\* The request failed: network error or a status other than 2xx.
RequestFailed(outcome) == outcome.fetch = "rejects" \/ ~outcome.ok

\* The response has no data: no JSON body, or the body null.
NoData(outcome) == outcome.json # "parsed" \/ outcome.body.kind = "null"

\* C28: the promise of a null-returning method is never rejected; it is
\* resolved with null whenever the request failed or the response had no
\* data; neither the call nor the settling changes the instance (token,
\* environment).
C28_NeverRejects ==
    /\ [][(pending # <<>> /\ pending' = <<>>
           /\ pending[1].method \in NullReturningMethods)
          => /\ returned'.settled = "resolved"
             /\ (RequestFailed(lastCall'.outcome) \/ NoData(lastCall'.outcome))
                   => returned'.value = NullValue
             /\ sdkInstance' = sdkInstance]_vars
    /\ [][(pending = <<>> /\ pending' # <<>>)
          => sdkInstance' = sdkInstance]_vars

\* C28 witness: getPerson of an instance with a token was answered with a
\* status other than 2xx and a JSON body, and its promise was resolved
\* with null; the instance still has its token.
C28_Witness ==
    /\ lastCall.op = "getPerson"
    /\ lastCall.phase = "settled"
    /\ lastCall.outcome.fetch = "responds"
    /\ ~lastCall.outcome.ok
    /\ lastCall.outcome.json = "parsed"
    /\ returned = [settled |-> "resolved", value |-> NullValue]
    /\ sdkInstance # <<>>
    /\ sdkInstance[1].accessToken = "tokenA"
    /\ sdkInstance[1].environment = "beta"

====
